---------------------------- MODULE Spec2Model ----------------------------
(***************************************************************************)
(* NewsBite: the periodic ingestion-and-enrichment pipeline.               *)
(*                                                                         *)
(* The specifications below share one set of variables.                    *)
(*   SpecDedup    the pure function NewsScheduler._remove_duplicates       *)
(*   Spec         the scheduler's ingestion job: crawl, dedupe, store      *)
(*                (NewsService.create_news_article), background AI task    *)
(*   SpecJobs     the scheduler, its job store and the runs of its jobs    *)
(*   SpecBatch    the batch pipeline: NewsCrawler.save_news_to_db and      *)
(*                process_unprocessed_news with its SQLAlchemy session     *)
(*   SpecStore    the News table under its writers and the admin's delete  *)
(*   SpecDelivery the delivery job and ContentGenerator's bulk send        *)
(*   SpecEnrich   AIProcessor.process_news and the storing of its result   *)
(*   SpecService  AIService.process_news_article                           *)
(*   SpecMatch    PersonalizationService.get_personalized_news_for_user    *)
(*   SpecDigest   ContentGenerator.generate_user_content at its limit      *)
(*   SpecCrawl    crawl_all_categories over sources and categories         *)
(*   SpecControversy  the two controversy analyses and the provider call   *)
(*   SpecKeywords extract_keywords over bounded texts                      *)
(*   SpecFetch    the fetches of a crawl, one after the other, with delay  *)
(*   SpecAdapter  one listing item through each of the source adapters     *)
(*   SpecSave     run_news_crawling and the count save_news_to_db returns  *)
(***************************************************************************)
EXTENDS Integers, Sequences, FiniteSets, TLC

VARIABLES
    dd_in,        \* _remove_duplicates: the argument news_items
    dd_out,       \* _remove_duplicates: the returned unique_news
    dd_pc,        \* "call" before the call, "ret" after it
    is_running,   \* NewsScheduler.is_running
    instances,    \* APScheduler's running-instance count of each job id
    jobs,         \* APScheduler's job store, as scheduler.get_jobs() lists it
    runs,         \* the coroutines of crawl_and_process_news
    aiTasks,      \* the tasks created for _process_ai_analysis, one per run
    news,         \* the committed rows of the News table, in insertion order
    bruns,        \* the coroutines of process_unprocessed_news
    users,        \* the rows of the User table
    emailJob,     \* the coroutine of send_personalized_emails
    bulkSend,     \* the coroutine of generate_and_send_daily_emails
    outbox,       \* what was handed to send_bulk_daily_news, by origin
    en_in,        \* process_news: the article and the providers' responses
    en_out,       \* process_news: the results and the row they are stored on
    en_pc,        \* "call", "result" after process_news, "stored" after the commit
    pz_in,        \* the matcher: News rows, subscriptions and arguments
    pz_out,       \* the matcher: matched list, result and digest
    pz_pc,        \* "call", "result" or "failed", "digest" or "none"
    crawl         \* the coroutine of NewsCrawler.crawl_all_categories

dedupVars == <<dd_in, dd_out, dd_pc>>
schedVars == <<is_running, instances, jobs>>
ingestVars == <<runs, aiTasks>>
batchVars == <<bruns>>
deliveryVars == <<users, emailJob, bulkSend, outbox>>
enrichVars == <<en_in, en_out, en_pc>>
matchVars == <<pz_in, pz_out, pz_pc>>
crawlVars == <<crawl>>
vars == <<dd_in, dd_out, dd_pc, is_running, instances, jobs, runs, aiTasks, news,
          bruns, users, emailJob, bulkSend, outbox,
          en_in, en_out, en_pc, pz_in, pz_out, pz_pc, crawl>>

---------------------------------------------------------------------------
(* Bounds *)

MaxBatch == 3        \* longest list of NewsItems one deduplication is given
MaxRuns == 2         \* runs of crawl_and_process_news in one behaviour
MaxCrawl == 2        \* longest list of NewsItems one crawl returns
MaxSave == 1         \* longest list of news one save_news_to_db is given
MaxBatchRuns == 2    \* calls of process_unprocessed_news in one behaviour
MaxBatchSize == 2    \* largest batch_size a call is given
MaxUsers == 2        \* rows of the User table

---------------------------------------------------------------------------
(* Program constants *)

AiMaxItems == 20     \* news_items[:20]
AiSemaphore == 2     \* asyncio.Semaphore(2)

---------------------------------------------------------------------------
(* Titles and NewsItems *)

RECURSIVE SeqsUpTo(_, _)
SeqsUpTo(S, n) ==
    IF n = 0 THEN {<<>>}
    ELSE LET shorter == SeqsUpTo(S, n - 1)
         IN  shorter \cup {Append(s, x) : s \in shorter, x \in S}

\* Crawled titles, as character sequences: one headline in two letter cases
\* and with leading or trailing whitespace, and a second headline.
Titles == {<<"a">>, <<"A">>, <<"a", " ">>, <<" ", "A">>, <<"b">>}

Urls == {"u1", "u2"}

\* dataclass NewsItem, reduced to the fields deduplication and storage read.
NewsItem == [title : Titles, url : Urls]

\* str.lower() on one character
lower_char(c) == IF c = "A" THEN "a" ELSE c

\* str.lower()
lower(s) == [i \in 1..Len(s) |-> lower_char(s[i])]

\* str.strip(): leading and trailing whitespace removed
RECURSIVE lstrip(_)
lstrip(s) == IF s # <<>> /\ Head(s) = " " THEN lstrip(Tail(s)) ELSE s

RECURSIVE rstrip(_)
rstrip(s) ==
    IF s # <<>> /\ s[Len(s)] = " " THEN rstrip(SubSeq(s, 1, Len(s) - 1)) ELSE s

strip(s) == rstrip(lstrip(s))

\* A plausible slip: the key is the raw title.
title_key_raw(title) == title

\* title_key = news_item.title.lower().strip()
title_key(title) == strip(lower(title))

\* the loop of _remove_duplicates over the rest of news_items
RECURSIVE remove_duplicates_loop(_, _, _)
remove_duplicates_loop(rest, seen_titles, unique_news) ==
    IF rest = <<>> THEN unique_news
    ELSE LET news_item == Head(rest)
             key == title_key(news_item.title)
         IN  IF key \notin seen_titles
             THEN remove_duplicates_loop(Tail(rest), seen_titles \cup {key},
                                         Append(unique_news, news_item))
             ELSE remove_duplicates_loop(Tail(rest), seen_titles, unique_news)

\* A plausible slip: the last occurrence of a title replaces the kept one.
RECURSIVE remove_duplicates_last(_)
remove_duplicates_last(news_items) ==
    IF news_items = <<>> THEN <<>>
    ELSE LET news_item == Head(news_items)
             later == Tail(news_items)
         IN  IF \E j \in 1..Len(later) :
                    title_key(later[j].title) = title_key(news_item.title)
             THEN remove_duplicates_last(later)
             ELSE <<news_item>> \o remove_duplicates_last(later)

\* NewsScheduler._remove_duplicates
remove_duplicates(news_items) == remove_duplicates_loop(news_items, {}, <<>>)

---------------------------------------------------------------------------
(* The News table *)

\* The enrichment columns process_unprocessed_news assigns.
EnrichmentFields ==
    {"summary", "sentiment_score", "sentiment_label", "keywords",
     "is_controversial", "pros_summary", "cons_summary",
     "mentioned_companies", "embedding"}

\* The value of an enrichment column nobody has written.
Unwritten == 0

\* News(title=..., url=..., is_processed=False): a freshly inserted row.  Each
\* enrichment column holds the id of the run that wrote it, or Unwritten.
NewRow(news_item) ==
    [title |-> news_item.title, url |-> news_item.url,
     is_processed |-> FALSE, is_active |-> TRUE,
     enr |-> [f \in EnrichmentFields |-> Unwritten]]

Ids == 1..Len(news)

---------------------------------------------------------------------------
(* The scheduler *)

JobIds == {"news_crawling", "email_sending"}

\* add_job(...) is given no max_instances: APScheduler's default applies.
max_instances == 1

\* settings.ENVIRONMENT
Environments == {"development", "production"}

\* The jobs start() adds: id, name, and the next time the trigger fires,
\* which the scheduler computes when it starts and after every firing.
ScheduledJobs(environment) ==
    << [id |-> "news_crawling", name |-> "crawl and process news",
        next_run_time |-> "18:00"],
       [id |-> "email_sending", name |-> "send personalized news email",
        next_run_time |-> "19:00"] >>
    \o IF environment = "development"
       THEN << [id |-> "test_crawling", name |-> "test crawling",
                next_run_time |-> "*/10"] >>
       ELSE <<>>

\* A plausible slip: the job is added whether or not its id is in the store.
add_job_twice(store, job) == Append(store, job)

\* add_job(..., replace_existing=True)
add_job(store, job) ==
    IF \E k \in 1..Len(store) : store[k].id = job.id
    THEN [k \in 1..Len(store) |-> IF store[k].id = job.id THEN job ELSE store[k]]
    ELSE Append(store, job)

\* The store after the jobs of a list were added one by one
RECURSIVE add_jobs(_, _)
add_jobs(store, list) ==
    IF list = <<>> THEN store
    ELSE add_jobs(add_job(store, Head(list)), Tail(list))

\* NewsScheduler.get_next_run_times
get_next_run_times(store) ==
    [k \in 1..Len(store) |->
        [id |-> store[k].id, name |-> store[k].name,
         next_run_time |-> store[k].next_run_time]]

\* A plausible slip: start() has lost its guard and adds the jobs again.
StartUnguarded ==
    /\ \E environment \in Environments :
          jobs' = add_jobs(jobs, ScheduledJobs(environment))
    /\ is_running' = TRUE
    /\ UNCHANGED <<instances, ingestVars, news, dedupVars, enrichVars, matchVars, batchVars, deliveryVars, crawlVars>>

\* NewsScheduler.start
Start ==
    /\ ~is_running
    /\ \E environment \in Environments :
          jobs' = add_jobs(jobs, ScheduledJobs(environment))
    /\ is_running' = TRUE
    /\ UNCHANGED <<instances, ingestVars, news, dedupVars, enrichVars, matchVars, batchVars, deliveryVars, crawlVars>>

\* NewsScheduler.stop: shutdown submits nothing new; coroutines already
\* running continue.  The job store is shut down with the scheduler: it is
\* emptied, or keeps its jobs until the next start.
Stop ==
    /\ is_running
    /\ is_running' = FALSE
    /\ jobs' \in {<<>>, jobs}
    /\ UNCHANGED <<instances, ingestVars, news, dedupVars, enrichVars, matchVars, batchVars, deliveryVars, crawlVars>>

---------------------------------------------------------------------------
(* The ingestion job: NewsScheduler.crawl_and_process_news *)

RunIds == 1..MaxRuns

\* What one crawl can return: one headline in two spellings under two URLs,
\* and a second headline under the first URL.
CrawlPool ==
    {[title |-> <<"a">>, url |-> "u1"], [title |-> <<"A">>, url |-> "u2"],
     [title |-> <<"b">>, url |-> "u1"]}

\* raised records, after the coroutine has returned, that it returned from
\* its outer except clause; such a run keeps the record of what started it.
IdleRun ==
    [pc |-> "idle", via |-> "none", news_items |-> <<>>, unique_news |-> <<>>,
     i |-> 1, saved_count |-> 0, raised |-> FALSE]

\* The coroutine has returned: its locals are gone.
DoneRun == [IdleRun EXCEPT !.pc = "done"]

NoTask == [pc |-> "none", items |-> <<>>, status |-> <<>>,
           processed_count |-> 0, failed_count |-> 0]

\* The job's coroutine is left: APScheduler releases the instance it counted.
\* The coroutines are numbered in the order they are started.
NextRun(r) == r = 1 + Cardinality({q \in RunIds : runs[q].pc # "idle"})

Release(r) ==
    IF runs[r].via = "cron"
    THEN [instances EXCEPT !["news_crawling"] = @ - 1]
    ELSE instances

\* The cron trigger of 'news_crawling' fires and the executor submits the job.
CronFireCrawl(r) ==
    /\ is_running
    /\ instances["news_crawling"] < max_instances
    /\ NextRun(r)
    /\ runs' = [runs EXCEPT ![r] = [IdleRun EXCEPT !.pc = "crawl", !.via = "cron"]]
    /\ instances' = [instances EXCEPT !["news_crawling"] = @ + 1]
    /\ UNCHANGED <<is_running, jobs, aiTasks, news, dedupVars, enrichVars, matchVars, batchVars, deliveryVars, crawlVars>>

\* The cron trigger fires while the job's instance is still running: the
\* executor refuses the submission, the run is logged as skipped.
CronSkipCrawl ==
    /\ is_running
    /\ instances["news_crawling"] >= max_instances
    /\ UNCHANGED <<schedVars, ingestVars, news, dedupVars, enrichVars, matchVars, batchVars, deliveryVars, crawlVars>>

\* POST /crawl/trigger: await news_scheduler.crawl_and_process_news()
trigger_news_crawl(r) ==
    /\ NextRun(r)
    /\ runs' = [runs EXCEPT ![r] = [IdleRun EXCEPT !.pc = "crawl", !.via = "manual"]]
    /\ UNCHANGED <<schedVars, aiTasks, news, dedupVars, enrichVars, matchVars, batchVars, deliveryVars, crawlVars>>

\* news_items = await news_crawler.crawl_all_categories(categories), then
\* the early return on an empty list, or _remove_duplicates.
CrawlReturn(r) ==
    /\ runs[r].pc = "crawl"
    /\ \E items \in SeqsUpTo(CrawlPool, MaxCrawl) :
          IF items = <<>>
          THEN /\ runs' = [runs EXCEPT ![r] = DoneRun]
               /\ instances' = Release(r)
          ELSE /\ runs' = [runs EXCEPT ![r].pc = "store",
                                       ![r].news_items = items,
                                       ![r].unique_news = remove_duplicates(items)]
               /\ UNCHANGED instances
    /\ UNCHANGED <<is_running, jobs, aiTasks, news, dedupVars, enrichVars, matchVars, batchVars, deliveryVars, crawlVars>>

\* A plausible slip: the exception leaves the job function, and the instance
\* the executor counted is never given back.
CrawlRaiseHolding(r) ==
    /\ runs[r].pc = "crawl"
    /\ runs' = [runs EXCEPT ![r] = [DoneRun EXCEPT !.raised = TRUE,
                                                    !.via = runs[r].via]]
    /\ UNCHANGED <<instances, is_running, jobs, aiTasks, news, dedupVars, enrichVars,
                   matchVars, batchVars, deliveryVars, crawlVars>>

\* The crawl raises (the browser cannot be launched): the outer except logs
\* it and the coroutine returns.
CrawlRaise(r) ==
    /\ runs[r].pc = "crawl"
    /\ runs' = [runs EXCEPT ![r] = [DoneRun EXCEPT !.raised = TRUE,
                                                    !.via = runs[r].via]]
    /\ instances' = Release(r)
    /\ UNCHANGED <<is_running, jobs, aiTasks, news, dedupVars, enrichVars, matchVars, batchVars, deliveryVars, crawlVars>>

\* existing = db.query(News).filter(News.title == news_item.title).first()
Existing(rows, news_item) ==
    \E k \in 1..Len(rows) : rows[k].title = news_item.title

\* asyncio.create_task(self._process_ai_analysis(unique_news)): the task's
\* tasks list is news_items[:20].
NewTask(unique_news) ==
    LET items == SubSeq(unique_news, 1, IF Len(unique_news) < AiMaxItems
                                        THEN Len(unique_news) ELSE AiMaxItems)
    IN  [pc |-> "run", items |-> items,
         status |-> [k \in 1..Len(items) |-> "wait"],
         processed_count |-> 0, failed_count |-> 0]

\* One turn of the store loop, await self.news_service.create_news_article:
\* the row exists and is returned, or is inserted and committed, or the
\* database raises and create_news_article returns None.  saved_count is
\* incremented in each case.  After the last turn the AI task is created and
\* the coroutine returns.
StoreOne(r) ==
    /\ runs[r].pc = "store"
    /\ runs[r].i <= Len(runs[r].unique_news)
    /\ LET news_item == runs[r].unique_news[runs[r].i]
           last == runs[r].i = Len(runs[r].unique_news)
       IN  /\ \E db_error \in BOOLEAN :
                 news' = IF db_error \/ Existing(news, news_item)
                         THEN news
                         ELSE Append(news, NewRow(news_item))
           /\ IF last
              THEN /\ runs' = [runs EXCEPT ![r] = DoneRun]
                   /\ aiTasks' = [aiTasks EXCEPT ![r] = NewTask(runs[r].unique_news)]
                   /\ instances' = Release(r)
              ELSE /\ runs' = [runs EXCEPT ![r].i = @ + 1,
                                           ![r].saved_count = @ + 1]
                   /\ UNCHANGED <<aiTasks, instances>>
    /\ UNCHANGED <<is_running, jobs, dedupVars, enrichVars, matchVars, batchVars, deliveryVars, crawlVars>>

---------------------------------------------------------------------------
(* The background task: NewsScheduler._process_ai_analysis *)

Running(task) == {k \in 1..Len(task.items) : task.status[k] = "run"}

\* async with semaphore: one item enters and calls
\* ai_service.process_news_article.
AiAcquire(r) ==
    /\ aiTasks[r].pc = "run"
    /\ Cardinality(Running(aiTasks[r])) < AiSemaphore
    /\ \E k \in 1..Len(aiTasks[r].items) :
          /\ aiTasks[r].status[k] = "wait"
          /\ aiTasks' = [aiTasks EXCEPT ![r].status[k] = "run"]
    /\ UNCHANGED <<schedVars, runs, news, dedupVars, enrichVars, matchVars, batchVars, deliveryVars, crawlVars>>

\* process_news_article returns: without an error the item's dict has
\* success True, with an error or an exception success False.  Nothing is
\* written to the News table.
AiReturn(r) ==
    /\ aiTasks[r].pc = "run"
    /\ \E k \in Running(aiTasks[r]), outcome \in {"ok", "fail"} :
          aiTasks' = [aiTasks EXCEPT ![r].status[k] = outcome]
    /\ UNCHANGED <<schedVars, runs, news, dedupVars, enrichVars, matchVars, batchVars, deliveryVars, crawlVars>>

\* asyncio.gather has returned: the results are counted and logged.
AiGather(r) ==
    /\ aiTasks[r].pc = "run"
    /\ \A k \in 1..Len(aiTasks[r].items) : aiTasks[r].status[k] \in {"ok", "fail"}
    /\ aiTasks' = [aiTasks EXCEPT ![r] =
          [NoTask EXCEPT
             !.pc = "done",
             !.processed_count =
                 Cardinality({k \in 1..Len(aiTasks[r].items) : aiTasks[r].status[k] = "ok"}),
             !.failed_count =
                 Cardinality({k \in 1..Len(aiTasks[r].items) : aiTasks[r].status[k] = "fail"})]]
    /\ UNCHANGED <<schedVars, runs, news, dedupVars, enrichVars, matchVars, batchVars, deliveryVars, crawlVars>>

---------------------------------------------------------------------------
(* The batch pipeline: NewsCrawler.save_news_to_db *)

\* The loop of save_news_to_db: an item whose source_url is already in the
\* table, or was added earlier in this call (the session flushes before each
\* query), is skipped.
RECURSIVE save_loop(_, _)
save_loop(rows, news_data) ==
    IF news_data = <<>> THEN rows
    ELSE LET news_item == Head(news_data)
             existing == \E k \in 1..Len(rows) : rows[k].url = news_item.url
         IN  save_loop(IF existing THEN rows ELSE Append(rows, NewRow(news_item)),
                       Tail(news_data))

\* What one crawl of the batch pipeline can return: one headline in two
\* spellings under two URLs.
SavePool ==
    {[title |-> <<"a">>, url |-> "u1"], [title |-> <<"A">>, url |-> "u2"]}

\* run_news_crawling: the crawl's result is given to save_news_to_db, which
\* commits all its rows, or rolls all of them back when the database raises.
save_news_to_db ==
    /\ news' \in {news} \cup {save_loop(news, news_data) :
                                news_data \in SeqsUpTo(SavePool, MaxSave)}
    /\ UNCHANGED <<dedupVars, enrichVars, matchVars, schedVars, ingestVars, batchVars, deliveryVars, crawlVars>>

---------------------------------------------------------------------------
(* The batch pipeline: process_unprocessed_news *)

BatchRunIds == 1..MaxBatchRuns

\* The locals of one call.  sawDone and sawUnprocessed record what its query
\* saw: the runs that had returned and the rows that were unprocessed then.
\* failed and committed keep, after the call has returned, the rows it
\* raised on and the rows it wrote; processed_count and total_found are the
\* counts of the dict it returned (0 where the dict has no such key).
IdleBatch ==
    [pc |-> "idle", batch_size |-> 0, batch |-> {}, todo |-> {},
     pending |-> {}, failed |-> {}, fellback |-> {}, committed |-> {},
     success |-> FALSE, processed_count |-> 0, total_found |-> 0,
     sawDone |-> {}, sawUnprocessed |-> {}]

\* A plausible slip: the query has lost its filter.
AllRows(rows) == 1..Len(rows)

\* db.query(News).filter(News.is_processed == False)
Unprocessed(rows) == {a \in 1..Len(rows) : ~rows[a].is_processed}

Min(x, y) == IF x < y THEN x ELSE y

\* A plausible slip: the query has lost its limit.
NoLimit(S, n) == {S}

\* .limit(batch_size).all() with no ORDER BY: any batch_size of the rows, or
\* all of them when there are fewer.
Limit(S, n) == {T \in SUBSET S : Cardinality(T) = Min(n, Cardinality(S))}

\* A plausible slip: the flag is committed apart from the columns.
ApplyWritesNoFlag(rows, ids, r) ==
    [a \in 1..Len(rows) |->
        IF a \in ids
        THEN [rows[a] EXCEPT !.enr = [f \in EnrichmentFields |-> r]]
        ELSE rows[a]]

\* db.commit(): the UPDATE of every row the session holds as dirty, in one
\* transaction.  Run r wrote every enrichment column and is_processed.
ApplyWrites(rows, ids, r) ==
    [a \in 1..Len(rows) |->
        IF a \in ids
        THEN [rows[a] EXCEPT !.enr = [f \in EnrichmentFields |-> r],
                             !.is_processed = TRUE]
        ELSE rows[a]]

\* A plausible slip: the rows were committed one by one before the failure.
rollback_after_flush(rows, ids, r) == ApplyWrites(rows, ids, r)

\* A plausible slip: the error handler hands the rows back for a retry by
\* clearing their flag.
rollback_reset(rows, ids, r) ==
    [a \in 1..Len(rows) |->
        IF a \in ids THEN [rows[a] EXCEPT !.is_processed = FALSE] ELSE rows[a]]

\* db.rollback(): the session's pending UPDATEs are discarded, the committed
\* rows are what they were.
rollback(rows, ids, r) == rows

\* The call, by POST /process-ai or POST /crawl, up to the query: an empty
\* result returns at once, otherwise the loop is entered.
BatchSelect(r) ==
    /\ r = 1 + Cardinality({q \in BatchRunIds : bruns[q].pc # "idle"})
    /\ \E batch_size \in 1..MaxBatchSize :
       \E unprocessed_news \in Limit(Unprocessed(news), batch_size) :
          bruns' = [bruns EXCEPT ![r] =
             IF unprocessed_news = {}
             THEN [IdleBatch EXCEPT !.pc = "done", !.success = TRUE]
             ELSE [IdleBatch EXCEPT
                     !.pc = "loop",
                     !.batch_size = batch_size,
                     !.batch = unprocessed_news,
                     !.todo = unprocessed_news,
                     !.sawDone = {q \in BatchRunIds : bruns[q].pc = "done"},
                     !.sawUnprocessed = Unprocessed(news)]]
    /\ UNCHANGED <<dedupVars, enrichVars, matchVars, schedVars, ingestVars, news, deliveryVars, crawlVars>>

\* The row's state in the session after process_news came back:
\*   "ok"        the result was computed: every column and the flag are
\*               assigned;
\*   "fallback"  process_news caught its own exception and returned the
\*               default result: assigned in the same way;
\*   "raise"     an exception reached the loop's except: nothing was
\*               assigned, the loop continues.
\* A plausible slip: the row is assigned before the exception is raised.
AfterOutcomeAll(run, a, outcome) ==
    [run EXCEPT !.todo = @ \ {a},
                !.pending = @ \cup {a},
                !.failed = IF outcome = "raise" THEN @ \cup {a} ELSE @,
                !.fellback = IF outcome = "fallback" THEN @ \cup {a} ELSE @]

AfterOutcome(run, a, outcome) ==
    [run EXCEPT !.todo = @ \ {a},
                !.pending = IF outcome = "raise" THEN @ ELSE @ \cup {a},
                !.failed = IF outcome = "raise" THEN @ \cup {a} ELSE @,
                !.fellback = IF outcome = "fallback" THEN @ \cup {a} ELSE @]

\* One turn of the loop: await processor.process_news(news_data), the
\* assignments to the row, await asyncio.sleep(1).  The turn reads and
\* writes the session only; the list's order is the query's: any.
BatchTurn(r) ==
    /\ bruns[r].pc = "loop"
    /\ \E a \in bruns[r].todo, outcome \in {"ok", "fallback", "raise"} :
          bruns' = [bruns EXCEPT ![r] = AfterOutcome(bruns[r], a, outcome)]
    /\ UNCHANGED <<dedupVars, enrichVars, matchVars, schedVars, ingestVars, news, deliveryVars, crawlVars>>

\* After the loop: db.commit(), or its exception and db.rollback(); then the
\* session is closed.
BatchCommit(r) ==
    /\ bruns[r].pc = "loop"
    /\ bruns[r].todo = {}
    /\ \E commit_ok \in BOOLEAN :
          IF commit_ok
          THEN /\ news' = ApplyWrites(news, bruns[r].pending, r)
               /\ bruns' = [bruns EXCEPT ![r] =
                     [IdleBatch EXCEPT
                        !.pc = "done", !.success = TRUE,
                        !.failed = bruns[r].failed,
                        !.committed = bruns[r].pending,
                        !.processed_count = Cardinality(bruns[r].pending),
                        !.total_found = Cardinality(bruns[r].batch)]]
          ELSE /\ news' = rollback(news, bruns[r].pending, r)
               /\ bruns' = [bruns EXCEPT ![r] =
                     [IdleBatch EXCEPT !.pc = "done", !.failed = bruns[r].failed]]
    /\ UNCHANGED <<dedupVars, enrichVars, matchVars, schedVars, ingestVars, deliveryVars, crawlVars>>

---------------------------------------------------------------------------
(* The admin's delete *)

\* A plausible slip: db.delete(news) in place of the flag.
delete_row(rows, news_id) ==
    [a \in 1..(Len(rows) - 1) |-> IF a < news_id THEN rows[a] ELSE rows[a + 1]]

\* news.is_active = False
deactivate(rows, news_id) == [rows EXCEPT ![news_id].is_active = FALSE]

\* DELETE /admin/news/{news_id}: an id with no row is answered 404; the row
\* found has its flag cleared and the session commits, or the commit raises,
\* the session rolls back and the answer is 500.
delete_news(news_id) ==
    /\ \E commit_ok \in BOOLEAN :
          news' = IF news_id \in Ids /\ commit_ok
                  THEN deactivate(news, news_id)
                  ELSE news
    /\ UNCHANGED <<dedupVars, enrichVars, matchVars, schedVars, ingestVars, batchVars, deliveryVars, crawlVars>>

---------------------------------------------------------------------------
(* Delivery *)

UserIds == 1..MaxUsers

\* User.is_active == True, User.email_notifications_enabled == True
Eligible(us) ==
    {u \in UserIds : us[u].is_active /\ us[u].email_notifications_enabled}

IdleBulk == [pc |-> "idle", generated |-> {}]

\* The cron trigger of 'email_sending' fires: send_personalized_emails logs
\* its start and its end; the loop over the users is commented out, so
\* nothing is generated and nothing handed to the email service.  eligible
\* records the users who were eligible when the job fired.
send_personalized_emails ==
    /\ is_running
    /\ instances["email_sending"] < max_instances
    /\ emailJob' = [pc |-> "done", eligible |-> Eligible(users), handed |-> {}]
    /\ UNCHANGED <<dedupVars, enrichVars, matchVars, schedVars, ingestVars, news, batchVars,
                   users, bulkSend, outbox, crawlVars>>

\* POST /deactivate: current_user.is_active = False
deactivate_account(u) ==
    /\ users[u].is_active
    /\ users' = [users EXCEPT ![u].is_active = FALSE]
    /\ UNCHANGED <<dedupVars, enrichVars, matchVars, schedVars, ingestVars, news, batchVars,
                   emailJob, bulkSend, outbox, crawlVars>>

\* generate_and_send_daily_emails up to await send_bulk_daily_news:
\* generate_bulk_content queries the eligible users (test_mode limits their
\* number) and keeps the content of each user for whom generate_user_content
\* returns one; with none it returns at once.
BulkGenerate ==
    /\ bulkSend.pc = "idle"
    /\ \E test_mode \in BOOLEAN, test_limit \in 1..MaxUsers :
       \E active_users \in IF test_mode THEN Limit(Eligible(users), test_limit)
                                        ELSE {Eligible(users)} :
       \E generated_contents \in SUBSET active_users :
          bulkSend' = [pc |-> IF generated_contents = {} THEN "done" ELSE "send",
                       generated |-> generated_contents]
    /\ UNCHANGED <<dedupVars, enrichVars, matchVars, schedVars, ingestVars, news, batchVars,
                   users, emailJob, outbox, crawlVars>>

\* send_bulk_daily_news(recipients) is given one recipient per content.
BulkSend ==
    /\ bulkSend.pc = "send"
    /\ outbox' = outbox \cup bulkSend.generated
    /\ bulkSend' = [bulkSend EXCEPT !.pc = "done"]
    /\ UNCHANGED <<dedupVars, enrichVars, matchVars, schedVars, ingestVars, news, batchVars,
                   users, emailJob, crawlVars>>

---------------------------------------------------------------------------
(* The variables of the other specifications, at rest *)

DedupOff == dd_in = <<>> /\ dd_out = <<>> /\ dd_pc = "off"

SchedOff == is_running = FALSE /\ instances = [j \in JobIds |-> 0] /\ jobs = <<>>

IngestOff == runs = [r \in RunIds |-> IdleRun] /\ aiTasks = [r \in RunIds |-> NoTask]

BatchOff == bruns = [r \in BatchRunIds |-> IdleBatch]

EnrichOff == en_in = <<>> /\ en_out = <<>> /\ en_pc = "off"

MatchOff == pz_in = <<>> /\ pz_out = <<>> /\ pz_pc = "off"

CrawlOff == crawl = [pc |-> "off", outcomes |-> <<>>, all_news |-> <<>>, reported |-> 0]

DeliveryOff ==
    /\ users = [u \in UserIds |-> [is_active |-> TRUE,
                                   email_notifications_enabled |-> TRUE]]
    /\ emailJob = [pc |-> "idle", eligible |-> {}, handed |-> {}]
    /\ bulkSend = IdleBulk
    /\ outbox = {}

---------------------------------------------------------------------------
(* SpecDedup: _remove_duplicates applied to every list of NewsItems *)

InitDedup ==
    /\ dd_in \in SeqsUpTo(NewsItem, MaxBatch)
    /\ dd_out = <<>>
    /\ dd_pc = "call"
    /\ SchedOff /\ IngestOff /\ news = <<>> /\ BatchOff /\ DeliveryOff
    /\ EnrichOff /\ MatchOff /\ CrawlOff

\* unique_news = await self._remove_duplicates(news_items)
RemoveDuplicates ==
    /\ dd_pc = "call"
    /\ dd_out' = remove_duplicates(dd_in)
    /\ dd_pc' = "ret"
    /\ UNCHANGED <<dd_in, enrichVars, matchVars, schedVars, ingestVars, news, batchVars, deliveryVars, crawlVars>>

NextDedup == RemoveDuplicates

SpecDedup == InitDedup /\ [][NextDedup]_vars

---------------------------------------------------------------------------
(* Spec: the scheduler and its ingestion job *)

Init ==
    /\ DedupOff /\ SchedOff /\ IngestOff /\ news = <<>> /\ BatchOff /\ DeliveryOff
    /\ EnrichOff /\ MatchOff /\ CrawlOff

Next ==
    \/ Start
    \/ Stop
    \/ CronSkipCrawl
    \/ \E r \in RunIds :
          \/ CronFireCrawl(r)
          \/ trigger_news_crawl(r)
          \/ CrawlReturn(r)
          \/ CrawlRaise(r)
          \/ StoreOne(r)
          \/ AiAcquire(r)
          \/ AiReturn(r)
          \/ AiGather(r)

Spec == Init /\ [][Next]_vars

---------------------------------------------------------------------------
(* SpecJobs: the scheduler and the runs of its two jobs, from the firing of
   the trigger to the return of the job function *)

NextJobs ==
    \/ Start
    \/ Stop
    \/ CronSkipCrawl
    \/ send_personalized_emails
    \/ \E r \in RunIds :
          \/ CronFireCrawl(r)
          \/ CrawlReturn(r)
          \/ CrawlRaise(r)
          \/ StoreOne(r)

SpecJobs == Init /\ [][NextJobs]_vars

---------------------------------------------------------------------------
(* SpecBatch: save_news_to_db and process_unprocessed_news *)

NextBatch ==
    \/ save_news_to_db
    \/ \E r \in BatchRunIds :
          \/ BatchSelect(r)
          \/ BatchTurn(r)
          \/ BatchCommit(r)

SpecBatch == Init /\ [][NextBatch]_vars

---------------------------------------------------------------------------
(* SpecStore: the News table under every operation that writes it:
   save_news_to_db, one call of process_unprocessed_news and the admin's
   delete of a stored or of a missing id *)

NextStore ==
    \/ save_news_to_db
    \/ BatchSelect(1)
    \/ BatchTurn(1)
    \/ BatchCommit(1)
    \/ \E news_id \in 1..(Len(news) + 1) : delete_news(news_id)

SpecStore == Init /\ [][NextStore]_vars

---------------------------------------------------------------------------
(* SpecDelivery: the delivery job and the bulk send *)

InitDelivery ==
    /\ DedupOff /\ SchedOff /\ IngestOff /\ news = <<>> /\ BatchOff
    /\ EnrichOff /\ MatchOff /\ CrawlOff
    /\ users \in [UserIds -> [is_active : BOOLEAN,
                              email_notifications_enabled : BOOLEAN]]
    /\ emailJob = [pc |-> "idle", eligible |-> {}, handed |-> {}]
    /\ bulkSend = IdleBulk
    /\ outbox = {}

NextDelivery ==
    \/ Start
    \/ Stop
    \/ send_personalized_emails
    \/ BulkGenerate
    \/ BulkSend
    \/ \E u \in UserIds : deactivate_account(u)

SpecDelivery == InitDelivery /\ [][NextDelivery]_vars

---------------------------------------------------------------------------
(* Enrichment of one article: AIProcessor.process_news *)

MaxScore == 3        \* largest magnitude of a parsed score, in units of 1/ScoreOne

\* Scores are counted in halves: the float 1.0 is ScoreOne.
ScoreOne == 2

Scores == (0 - MaxScore)..MaxScore

\* What re.search finds in the provider's answer to the sentiment prompt:
\* whether the score pattern matches and its group(1) as a number, and
\* group(1) of the label pattern or "NoMatch"; raised when _call_gemini
\* raises.
SentimentResponses ==
    {[raised |-> TRUE, score_match |-> FALSE, score |-> 0, label |-> "NoMatch"]}
    \cup [raised : {FALSE}, score_match : {TRUE}, score : Scores,
          label : {"positive", "negative", "neutral", "NoMatch"}]
    \cup [raised : {FALSE}, score_match : {FALSE}, score : {0},
          label : {"positive", "negative", "neutral", "NoMatch"}]

\* What the three patterns of detect_controversy find: the flag, and the
\* stripped text after each opinion heading ("" when only whitespace follows,
\* "none" for the sentinel the prompt asks for).
OpinionTexts == {"NoMatch", "", "none", "text"}

ControversyResponses ==
    {[raised |-> TRUE, controversy |-> "NoMatch", pros |-> "NoMatch",
      cons |-> "NoMatch"]}
    \cup [raised : {FALSE}, controversy : {"NoMatch", "true", "false"},
          pros : OpinionTexts, cons : OpinionTexts]

\* The provider's answer to the summary prompt, by the length of its text.
SummaryResponses == {"raise", "empty", "short", "long"}

\* news_data as process_unprocessed_news builds it, and what the providers
\* and the embedding model do when they are called.  content is "None" when
\* the row has neither content_snippet nor raw_content.
EnrichInputs ==
    [content : {"None", "text"},
     summary_response : SummaryResponses,
     sentiment_response : SentimentResponses,
     controversy_response : ControversyResponses,
     keywords_outcome : {"ok", "raise"},
     embedding_outcome : {"ok", "raise", "no_model"}]

\* AIProcessor.summarize_news: the prompt reads content[:1500] before the
\* try, which raises TypeError on None; a provider error gives the first two
\* sentences of the content; any answer, empty or not, is returned stripped.
summarize_news(content, response) ==
    IF content = "None" THEN "TypeError"
    ELSE IF response = "raise" THEN "first_two_sentences"
    ELSE response

\* score = max(-1.0, min(1.0, score))
clamp(score) ==
    IF score > ScoreOne THEN ScoreOne
    ELSE IF score < 0 - ScoreOne THEN 0 - ScoreOne
    ELSE score

\* AIProcessor.analyze_sentiment
analyze_sentiment(response) ==
    IF response.raised THEN [score |-> 0, label |-> "neutral"]
    ELSE IF response.score_match /\ response.label # "NoMatch"
         THEN [score |-> clamp(response.score), label |-> response.label]
         ELSE [score |-> 0, label |-> "neutral"]

\* pros_text and pros_text != "none", given a match
opinion(text) == IF text \in {"NoMatch", "", "none"} THEN "None" ELSE text

\* return False, None, None
NotControversial ==
    [raised |-> FALSE, is_controversial |-> FALSE,
     pros_summary |-> "None", cons_summary |-> "None"]

\* The coroutine raises instead of returning.
TypeError ==
    [raised |-> TRUE, is_controversial |-> FALSE,
     pros_summary |-> "None", cons_summary |-> "None"]

\* A plausible slip: the opinions are taken whatever the flag says.
detect_controversy_any(content, response) ==
    IF content = "None" THEN TypeError
    ELSE IF response.raised THEN NotControversial
    ELSE [raised |-> FALSE,
          is_controversial |-> response.controversy = "true",
          pros_summary |-> opinion(response.pros),
          cons_summary |-> opinion(response.cons)]

\* AIProcessor.detect_controversy: the prompt reads content[:1200] before the
\* try.
detect_controversy(content, response) ==
    IF content = "None" THEN TypeError
    ELSE IF response.raised THEN NotControversial
    ELSE LET is_controversial == response.controversy = "true"
         IN  [raised |-> FALSE,
              is_controversial |-> is_controversial,
              pros_summary |-> IF is_controversial THEN opinion(response.pros)
                               ELSE "None",
              cons_summary |-> IF is_controversial THEN opinion(response.cons)
                               ELSE "None"]

\* AIProcessor.extract_keywords
extract_keywords(outcome) == IF outcome = "ok" THEN "keywords" ELSE "empty_list"

\* AIProcessor.generate_embedding
generate_embedding(outcome) == IF outcome = "ok" THEN "vector" ELSE "None"

\* AIProcessor.process_news: the three coroutines are awaited in turn inside
\* one try; an exception of any of them abandons the others and gives the
\* default result of the except clause.
process_news(news_item) ==
    LET summary == summarize_news(news_item.content, news_item.summary_response)
        sentiment == analyze_sentiment(news_item.sentiment_response)
        controversy == detect_controversy(news_item.content,
                                          news_item.controversy_response)
    IN  IF summary = "TypeError" \/ controversy.raised
        THEN [summary |-> IF news_item.content = "None" THEN "title"
                          ELSE "content_200",
              sentiment_score |-> 0, sentiment_label |-> "neutral",
              keywords |-> extract_keywords(news_item.keywords_outcome),
              is_controversial |-> FALSE,
              pros_summary |-> "None", cons_summary |-> "None",
              mentioned_companies |-> "companies",
              embedding |-> generate_embedding(news_item.embedding_outcome)]
        ELSE [summary |-> summary,
              sentiment_score |-> sentiment.score,
              sentiment_label |-> sentiment.label,
              keywords |-> extract_keywords(news_item.keywords_outcome),
              is_controversial |-> controversy.is_controversial,
              pros_summary |-> controversy.pros_summary,
              cons_summary |-> controversy.cons_summary,
              mentioned_companies |-> "companies",
              embedding |-> generate_embedding(news_item.embedding_outcome)]

\* result = await processor.process_news(news_data)
ProcessNews ==
    /\ en_pc = "call"
    /\ en_out' = [result |-> process_news(en_in)]
    /\ en_pc' = "result"
    /\ UNCHANGED <<en_in, dedupVars, matchVars, schedVars, ingestVars, news,
                   batchVars, deliveryVars, crawlVars>>

\* news.summary = result.summary ... news.is_processed = True, db.commit()
StoreResult ==
    /\ en_pc = "result"
    /\ en_out' = [result |-> en_out.result,
                  row |-> [f \in DOMAIN en_out.result \cup {"is_processed"} |->
                              IF f = "is_processed" THEN TRUE
                              ELSE en_out.result[f]]]
    /\ en_pc' = "stored"
    /\ UNCHANGED <<en_in, dedupVars, matchVars, schedVars, ingestVars, news,
                   batchVars, deliveryVars, crawlVars>>

InitEnrich ==
    /\ DedupOff /\ SchedOff /\ IngestOff /\ news = <<>> /\ BatchOff /\ DeliveryOff
    /\ MatchOff /\ CrawlOff
    /\ en_in \in EnrichInputs
    /\ en_out = <<>>
    /\ en_pc = "call"

NextEnrich == ProcessNews \/ StoreResult

SpecEnrich == InitEnrich /\ [][NextEnrich]_vars

---------------------------------------------------------------------------
(* The scheduler's AI service: AIService.summarize_news, analyze_sentiment *)

\* A provider's answer to the sentiment prompt "label|score": it raises, or
\* is empty, or has no "|", or has a label before the "|" and after it a
\* text that float() accepts (numeric, with its value) or rejects.
ServiceLabels == {"positive", "label"}

ServiceSentimentResponses ==
    {[raised |-> TRUE, empty |-> FALSE, bar |-> FALSE, label |-> "", numeric |-> FALSE, score |-> 0],
     [raised |-> FALSE, empty |-> TRUE, bar |-> FALSE, label |-> "", numeric |-> FALSE, score |-> 0],
     [raised |-> FALSE, empty |-> FALSE, bar |-> FALSE, label |-> "", numeric |-> FALSE, score |-> 0]}
    \cup [raised : {FALSE}, empty : {FALSE}, bar : {TRUE}, label : ServiceLabels,
          numeric : {FALSE}, score : {0}]
    \cup [raised : {FALSE}, empty : {FALSE}, bar : {TRUE}, label : ServiceLabels,
          numeric : {TRUE}, score : Scores]

\* The arguments of one call and what each provider does when it is called.
ServiceInputs ==
    [fn : {"summarize_news"}, content : {"None", "text"},
     gemini_available : BOOLEAN, openai_available : BOOLEAN,
     gemini : SummaryResponses, openai : SummaryResponses]
    \cup
    [fn : {"analyze_sentiment"}, content : {"None", "text"},
     gemini_available : BOOLEAN, openai_available : BOOLEAN,
     gemini : ServiceSentimentResponses, openai : ServiceSentimentResponses]

\* AIService.summarize_news: Gemini's answer is returned when it is longer
\* than 10 characters; otherwise OpenAI's answer is returned whatever its
\* length; _create_simple_summary when OpenAI raises or is not configured.
\* len(content) raises on None and the outer except returns "".
AIService_summarize_news(a) ==
    IF a.content = "None"
    THEN [summary |-> "", gemini_called |-> FALSE, openai_called |-> FALSE]
    ELSE IF a.gemini_available /\ a.gemini = "long"
    THEN [summary |-> "gemini_text", gemini_called |-> TRUE, openai_called |-> FALSE]
    ELSE IF a.openai_available /\ a.openai # "raise"
    THEN [summary |-> IF a.openai = "empty" THEN "" ELSE "openai_text",
          gemini_called |-> a.gemini_available, openai_called |-> TRUE]
    ELSE [summary |-> "simple_summary",
          gemini_called |-> a.gemini_available,
          openai_called |-> a.openai_available]

\* return {"label": "중립적", "score": 0.5}
ServiceDefault == [label |-> "jungnipjeok", score |-> 1]

\* AIService.analyze_sentiment: the first non-empty answer of Gemini, then
\* OpenAI, is split at "|"; float(parts[1]) is returned as it is.
AIService_analyze_sentiment(a) ==
    IF a.content = "None" THEN ServiceDefault
    ELSE LET from_gemini == a.gemini_available /\ ~a.gemini.raised /\ ~a.gemini.empty
             from_openai == ~from_gemini /\ a.openai_available
                               /\ ~a.openai.raised /\ ~a.openai.empty
             response == IF from_gemini THEN a.gemini ELSE a.openai
         IN  IF (from_gemini \/ from_openai) /\ response.bar /\ response.numeric
             THEN [label |-> response.label, score |-> response.score]
             ELSE ServiceDefault

\* summary_task = self.summarize_news(title, content, category)
ServiceSummarize ==
    /\ en_pc = "call"
    /\ en_in.fn = "summarize_news"
    /\ en_out' = AIService_summarize_news(en_in)
    /\ en_pc' = "returned"
    /\ UNCHANGED <<en_in, dedupVars, matchVars, schedVars, ingestVars, news,
                   batchVars, deliveryVars, crawlVars>>

\* sentiment_task = self.analyze_sentiment(title, content)
ServiceSentiment ==
    /\ en_pc = "call"
    /\ en_in.fn = "analyze_sentiment"
    /\ en_out' = AIService_analyze_sentiment(en_in)
    /\ en_pc' = "returned"
    /\ UNCHANGED <<en_in, dedupVars, matchVars, schedVars, ingestVars, news,
                   batchVars, deliveryVars, crawlVars>>

InitService ==
    /\ DedupOff /\ SchedOff /\ IngestOff /\ news = <<>> /\ BatchOff /\ DeliveryOff
    /\ MatchOff /\ CrawlOff
    /\ en_in \in ServiceInputs
    /\ en_out = <<>>
    /\ en_pc = "call"

NextService == ServiceSummarize \/ ServiceSentiment

SpecService == InitService /\ [][NextService]_vars

---------------------------------------------------------------------------
(* Controversy detection: AIProcessor.detect_controversy of the batch
   pipeline and AIService.analyze_pros_and_cons of the scheduler *)

MaxWords == 1        \* longest title and longest body, in words

\* controversial_keywords, reduced to two of its fifteen entries ("nonran",
\* "gyuje"), and a word that is none of them.
controversial_keywords == {"nonran", "gyuje"}

Words == controversial_keywords \cup {"nalssi"}

Texts == SeqsUpTo(Words, MaxWords)

\* keyword in text
contains(text, keyword) == \E i \in 1..Len(text) : text[i] = keyword

\* A provider's answer to the pros-and-cons prompt: it raises, or is empty,
\* or says "not applicable", or is a text of at most 20 or of more than 20
\* characters without that phrase.
ProsConsAnswers == {"raise", "empty", "not_applicable", "short", "long"}

NoControversyResponse ==
    [raised |-> TRUE, controversy |-> "NoMatch", pros |-> "NoMatch",
     cons |-> "NoMatch"]

\* The arguments of one call and what each provider does when it is called.
\* content_is_none: the row has neither content_snippet nor raw_content.
ControversyInputs ==
    [fn : {"detect_controversy"}, title : Texts,
     content_is_none : {FALSE}, content : Texts,
     gemini_available : {TRUE}, openai_available : {FALSE},
     response : ControversyResponses, gemini : {"raise"}, openai : {"raise"}]
    \cup
    [fn : {"detect_controversy"}, title : Texts,
     content_is_none : {TRUE}, content : {<<>>},
     gemini_available : {TRUE}, openai_available : {FALSE},
     response : ControversyResponses, gemini : {"raise"}, openai : {"raise"}]
    \cup
    [fn : {"analyze_pros_and_cons"}, title : Texts,
     content_is_none : {FALSE}, content : Texts,
     gemini_available : BOOLEAN, openai_available : BOOLEAN,
     response : {NoControversyResponse},
     gemini : ProsConsAnswers, openai : ProsConsAnswers]
    \cup
    [fn : {"analyze_pros_and_cons"}, title : Texts,
     content_is_none : {TRUE}, content : {<<>>},
     gemini_available : BOOLEAN, openai_available : BOOLEAN,
     response : {NoControversyResponse},
     gemini : ProsConsAnswers, openai : ProsConsAnswers]

\* any(keyword in title or keyword in content for keyword in
\* controversial_keywords), for a content that is a string
any_keyword(title, content) ==
    \E keyword \in controversial_keywords :
        contains(title, keyword) \/ contains(content, keyword)

\* AIProcessor.detect_controversy with the calls it makes: the prompt is
\* built and response = await self._call_gemini(prompt) is awaited for every
\* title and content; only content[:1200] on None raises before the call.
AIProcessor_detect_controversy(a) ==
    LET r == detect_controversy(IF a.content_is_none THEN "None" ELSE "text",
                                a.response)
    IN  [gemini_called |-> ~a.content_is_none, openai_called |-> FALSE,
         raised |-> r.raised,
         is_controversial |-> r.is_controversial,
         pros_summary |-> r.pros_summary, cons_summary |-> r.cons_summary,
         pros_and_cons |-> ""]

\* AIService.analyze_pros_and_cons: "" without a call when no keyword is in
\* the title or the content (and when the content is None: the keyword test
\* or len(content) raises and the outer except returns ""); otherwise
\* Gemini is asked when it is configured, OpenAI when Gemini gave nothing
\* and it is configured, and the answer is returned when it has more than 20
\* characters and does not say "not applicable".
AIService_analyze_pros_and_cons(a) ==
    LET is_controversial == ~a.content_is_none /\ any_keyword(a.title, a.content)
        from_gemini == IF a.gemini_available /\ a.gemini # "raise"
                       THEN a.gemini ELSE "empty"
        ask_openai == from_gemini = "empty" /\ a.openai_available
        response == IF ask_openai
                    THEN (IF a.openai = "raise" THEN "empty" ELSE a.openai)
                    ELSE from_gemini
    IN  IF ~is_controversial
        THEN [gemini_called |-> FALSE, openai_called |-> FALSE,
              raised |-> FALSE, is_controversial |-> FALSE,
              pros_summary |-> "None", cons_summary |-> "None",
              pros_and_cons |-> ""]
        ELSE [gemini_called |-> a.gemini_available, openai_called |-> ask_openai,
              raised |-> FALSE, is_controversial |-> TRUE,
              pros_summary |-> "None", cons_summary |-> "None",
              pros_and_cons |-> IF response = "long" THEN "text" ELSE ""]

\* controversy_task = self.detect_controversy(title, content)
DetectControversy ==
    /\ en_pc = "call"
    /\ en_in.fn = "detect_controversy"
    /\ en_out' = AIProcessor_detect_controversy(en_in)
    /\ en_pc' = "returned"
    /\ UNCHANGED <<en_in, dedupVars, matchVars, schedVars, ingestVars, news,
                   batchVars, deliveryVars, crawlVars>>

\* pros_cons_task = self.analyze_pros_and_cons(title, content, category)
AnalyzeProsAndCons ==
    /\ en_pc = "call"
    /\ en_in.fn = "analyze_pros_and_cons"
    /\ en_out' = AIService_analyze_pros_and_cons(en_in)
    /\ en_pc' = "returned"
    /\ UNCHANGED <<en_in, dedupVars, matchVars, schedVars, ingestVars, news,
                   batchVars, deliveryVars, crawlVars>>

InitControversy ==
    /\ DedupOff /\ SchedOff /\ IngestOff /\ news = <<>> /\ BatchOff /\ DeliveryOff
    /\ MatchOff /\ CrawlOff
    /\ en_in \in ControversyInputs
    /\ en_out = <<>>
    /\ en_pc = "call"

NextControversy == DetectControversy \/ AnalyzeProsAndCons

SpecControversy == InitControversy /\ [][NextControversy]_vars

---------------------------------------------------------------------------
(* Keyword extraction: AIProcessor.extract_keywords *)

MaxTokens == 4       \* longest free text, in tokens of re.findall
MaxTail == 3         \* tokens that follow five distinct words in a long text

\* max_keywords: int = 5
DefaultMaxKeywords == 5

\* stopwords, reduced to a one-character and a two-character entry.
stopwords == {<<"i">>, <<"i", "t">>}

\* Six words that pass the filter, a one-character token and the stopwords.
EligibleWords ==
    {<<"a", "a">>, <<"b", "b">>, <<"c", "c">>, <<"d", "d">>, <<"e", "e">>,
     <<"f", "f">>}

TokenPool == EligibleWords \cup {<<"x">>} \cup stopwords

FiveWords ==
    << <<"a", "a">>, <<"b", "b">>, <<"c", "c">>, <<"d", "d">>, <<"e", "e">> >>

\* The texts extract_keywords is tried on, as re.findall splits them: every
\* short text, and the texts of five distinct words and a tail.
KeywordTexts ==
    SeqsUpTo(TokenPool, MaxTokens)
    \cup {FiveWords \o tail : tail \in SeqsUpTo(TokenPool, MaxTail)}

\* len(word) >= 2 and word not in stopwords
eligible(word) == Len(word) >= 2 /\ word \notin stopwords

\* filtered_words
filtered_words(words) == SelectSeq(words, eligible)

\* word_freq[word]
frequency(words, word) == Cardinality({i \in 1..Len(words) : words[i] = word})

\* The keys of word_freq in the order the dict holds them: the order of
\* first insertion.
RECURSIVE word_freq_keys(_)
word_freq_keys(words) ==
    IF words = <<>> THEN <<>>
    ELSE LET before == word_freq_keys(SubSeq(words, 1, Len(words) - 1))
             word == words[Len(words)]
         IN  IF \E i \in 1..Len(before) : before[i] = word
             THEN before
             ELSE Append(before, word)

\* A plausible slip: the items are returned in the dict's order.
sorted_by_freq_missing(keys, words) == keys

\* sorted(word_freq.items(), key=lambda x: x[1], reverse=True): a stable
\* sort, items of equal frequency keep the dict's order.
RECURSIVE sorted_by_freq(_, _)
sorted_by_freq(keys, words) ==
    IF keys = <<>> THEN <<>>
    ELSE LET before == sorted_by_freq(SubSeq(keys, 1, Len(keys) - 1), words)
             word == keys[Len(keys)]
             rarer == {i \in 1..Len(before) :
                          frequency(words, before[i]) < frequency(words, word)}
         IN  IF rarer = {} THEN Append(before, word)
             ELSE LET p == CHOOSE i \in rarer : \A j \in rarer : i <= j
                  IN  SubSeq(before, 1, p - 1) \o <<word>>
                         \o SubSeq(before, p, Len(before))

\* AIProcessor.extract_keywords(text, max_keywords) on the tokens of text
extract_keywords_of(words, max_keywords) ==
    LET filtered == filtered_words(words)
        keywords == sorted_by_freq(word_freq_keys(filtered), filtered)
    IN  SubSeq(keywords, 1, Min(max_keywords, Len(keywords)))

\* keywords = self.extract_keywords(full_text)
ExtractKeywords ==
    /\ en_pc = "call"
    /\ en_out' = [keywords |-> extract_keywords_of(en_in.words, en_in.max_keywords)]
    /\ en_pc' = "returned"
    /\ UNCHANGED <<en_in, dedupVars, matchVars, schedVars, ingestVars, news,
                   batchVars, deliveryVars, crawlVars>>

InitKeywords ==
    /\ DedupOff /\ SchedOff /\ IngestOff /\ news = <<>> /\ BatchOff /\ DeliveryOff
    /\ MatchOff /\ CrawlOff
    /\ en_in \in [words : KeywordTexts, max_keywords : {DefaultMaxKeywords}]
    /\ en_out = <<>>
    /\ en_pc = "call"

NextKeywords == ExtractKeywords

SpecKeywords == InitKeywords /\ [][NextKeywords]_vars

---------------------------------------------------------------------------
(* Personalization: PersonalizationService.get_personalized_news_for_user *)

MaxNews == 3         \* rows of the News table the matcher is tried on
MaxLimit == 2        \* largest limit argument besides the digest's own
MaxMatched == 6      \* rows of the News table the digest is tried on

\* limit=20 of generate_user_content
DigestLimit == 20

\* controversial_news[:5]
ControversialLimit == 5

\* sorted_news[:3], sorted_news[:2], sorted_controversial[:3]
CategoryCap == 3
CompanyCap == 2
ControversialCap == 3

\* datetime values: whole seconds and microseconds.  The lookback window
\* [start_date, end_date] is [WindowStart, WindowEnd].
Time(sec, usec) == [sec |-> sec, usec |-> usec]

WindowStart == Time(1, 0)
WindowEnd == Time(2, 0)

\* a <= b on datetimes
TimeLeq(a, b) == a.sec < b.sec \/ (a.sec = b.sec /\ a.usec <= b.usec)

\* datetime.isoformat(): the microseconds are printed only when they are
\* not zero.  The date and time up to the seconds have a fixed width and are
\* one symbol here.
isoformat(t) == IF t.usec = 0 THEN <<t.sec>> ELSE <<t.sec, t.usec>>

\* a < b on str: the first differing symbol decides, a proper prefix is less
RECURSIVE StrLess(_, _)
StrLess(a, b) ==
    IF b = <<>> THEN FALSE
    ELSE IF a = <<>> THEN TRUE
    ELSE IF Head(a) # Head(b) THEN Head(a) < Head(b)
    ELSE StrLess(Tail(a), Tail(b))

\* Category names (a subscription names the category by id, a group by
\* name) and company names.
Categories == {"c1", "c2"}
Companies == {"k1", "k2"}

\* A row of News with its NewsCategory rows.
Row(active, processed, at, cats, comps, controversial) ==
    [is_active |-> active, is_processed |-> processed, published_at |-> at,
     categories |-> cats, mentioned_companies |-> comps,
     is_controversial |-> controversial]

\* Rows the matcher is tried on: processed, active and recent rows of one or
\* two categories with and without company mentions, and rows that are
\* inactive, unprocessed or older than the window.
MatchPool ==
    << Row(TRUE, TRUE, Time(2, 0), {"c1"}, {"k1"}, TRUE),
       Row(TRUE, TRUE, Time(1, 5), {"c1"}, {}, FALSE),
       Row(TRUE, TRUE, Time(2, 0), {"c2"}, {}, TRUE),
       Row(TRUE, TRUE, Time(1, 0), {"c1", "c2"}, {"k1", "k2"}, FALSE),
       Row(FALSE, TRUE, Time(2, 0), {"c1"}, {"k1"}, FALSE),
       Row(TRUE, FALSE, Time(2, 0), {"c1"}, {}, FALSE),
       Row(TRUE, TRUE, Time(0, 0), {"c1"}, {"k1"}, TRUE) >>

\* Rows the digest is tried on: processed, active, recent rows of one
\* category that mention one company.
DigestPool ==
    << Row(TRUE, TRUE, Time(1, 0), {"c1"}, {"k1"}, FALSE),
       Row(TRUE, TRUE, Time(1, 0), {"c1"}, {"k1"}, TRUE),
       Row(TRUE, TRUE, Time(1, 5), {"c1"}, {"k1"}, FALSE),
       Row(TRUE, TRUE, Time(1, 5), {"c1"}, {"k1"}, TRUE),
       Row(TRUE, TRUE, Time(2, 0), {"c1"}, {"k1"}, FALSE),
       Row(TRUE, TRUE, Time(2, 0), {"c1"}, {"k1"}, TRUE) >>

\* The tables of up to n rows of a pool; rows are inserted in the pool's
\* order, the id of a row is its index.
Tables(pool, n) ==
    UNION {{[i \in 1..m |-> pool[f[i]]] :
               f \in {g \in [1..m -> 1..Len(pool)] :
                         \A i \in 1..(m - 1) : g[i] <= g[i + 1]}} :
           m \in 0..n}

\* News.is_active == True, News.is_processed == True,
\* News.published_at >= start_date, News.published_at <= end_date
Base(rows) ==
    {i \in 1..Len(rows) :
        /\ rows[i].is_active /\ rows[i].is_processed
        /\ TimeLeq(WindowStart, rows[i].published_at)
        /\ TimeLeq(rows[i].published_at, WindowEnd)}

\* query.join(NewsCategory).filter(category_id.in_(category_ids)).exists():
\* the subquery selects from news JOIN news_categories and is not correlated
\* to the row of the enclosing query, so it is one truth value for all rows.
category_filter(rows, category_ids) ==
    \E j \in Base(rows) : rows[j].categories \cap category_ids # {}

\* or_(News.mentioned_companies.any(name) for name in company_names)
company_filter(row, company_names) ==
    \E company_name \in company_names : company_name \in row.mentioned_companies

\* The rows the query of _get_filtered_news selects: the category and the
\* company filter are added only for a non-empty list, and no filter at all
\* is applied when both lists are empty.
Filtered(rows, category_ids, company_names) ==
    IF category_ids = {} /\ company_names = {} THEN Base(rows)
    ELSE {i \in Base(rows) :
             \/ category_ids # {} /\ category_filter(rows, category_ids)
             \/ company_names # {} /\ company_filter(rows[i], company_names)}

\* The dictionary _get_filtered_news makes of row i.
NewsDict(rows, i) ==
    [id |-> i, published_at |-> isoformat(rows[i].published_at),
     mentioned_companies |-> rows[i].mentioned_companies,
     is_controversial |-> rows[i].is_controversial]

\* order_by(desc(News.published_at)).limit(limit).all(): the orders the
\* database may return the ids S in, cut at n.  Rows with equal published_at
\* come in any order; rows equal in every column are told apart by nothing
\* but their id and are taken in its order.
RECURSIVE OrderByDescLimit(_, _, _)
OrderByDescLimit(rows, S, n) ==
    IF S = {} \/ n = 0 THEN {<<>>}
    ELSE LET firsts == {a \in S :
                          /\ \A b \in S : TimeLeq(rows[b].published_at,
                                                  rows[a].published_at)
                          /\ \A b \in S : rows[b] = rows[a] => a <= b}
         IN  UNION {{<<NewsDict(rows, a)>> \o rest :
                        rest \in OrderByDescLimit(rows, S \ {a}, n - 1)} :
                    a \in firsts}

\* A plausible slip: an article is filed under one of its categories only.
group_news_by_one_category(rows, news_list) ==
    LET first(i) == CHOOSE c \in rows[i].categories :
                        \A d \in rows[i].categories : c = d \/ c = "c1"
        names == {first(news_list[k].id) : k \in 1..Len(news_list)}
    IN  [name \in names |->
            SelectSeq(news_list, LAMBDA item : first(item.id) = name)]

\* _group_news_by_category: every category of every article of the list gets
\* a group, subscribed or not, in the list's order.
group_news_by_category(rows, news_list) ==
    LET names == UNION {rows[news_list[k].id].categories : k \in 1..Len(news_list)}
    IN  [name \in names |->
            SelectSeq(news_list, LAMBDA item : name \in rows[item.id].categories)]

\* _group_news_by_company: a group for every subscribed company name.
group_news_by_company(news_list, company_names) ==
    [company \in company_names |->
        SelectSeq(news_list, LAMBDA item : company \in item.mentioned_companies)]

\* list[:n]
Take(list, n) == SubSeq(list, 1, Min(n, Len(list)))

\* A plausible slip: the list is cut without being filtered.
controversial_any(personalized_news) == Take(personalized_news, ControversialLimit)

\* [news for news in personalized_news if news.get('is_controversial')][:5]
controversial_news(personalized_news) ==
    Take(SelectSeq(personalized_news, LAMBDA item : item.is_controversial),
         ControversialLimit)

\* return {"error": ...}
ErrorResult ==
    [error |-> TRUE, total_news |-> 0, news_by_category |-> <<>>,
     news_by_company |-> <<>>, controversial_news |-> <<>>]

\* The dictionary get_personalized_news_for_user returns for the list
\* _get_filtered_news gave.
Result(rows, company_names, personalized_news) ==
    [error |-> FALSE,
     total_news |-> Len(personalized_news),
     news_by_category |-> group_news_by_category(rows, personalized_news),
     news_by_company |-> group_news_by_company(personalized_news, company_names),
     controversial_news |-> controversial_news(personalized_news)]

\* get_personalized_news_for_user(user_id, limit, days, db)
GetPersonalizedNews ==
    /\ pz_pc = "call"
    /\ IF ~pz_in.user_found
       THEN pz_out' = [personalized_news |-> <<>>, result |-> ErrorResult]
       ELSE \E personalized_news \in
                 OrderByDescLimit(pz_in.news,
                                  Filtered(pz_in.news, pz_in.category_ids,
                                           pz_in.company_names),
                                  pz_in.limit) :
               pz_out' = [personalized_news |-> personalized_news,
                          result |-> Result(pz_in.news, pz_in.company_names,
                                            personalized_news)]
    /\ pz_pc' = "result"
    /\ UNCHANGED <<pz_in, dedupVars, enrichVars, schedVars, ingestVars, news,
                   batchVars, deliveryVars, crawlVars>>

\* A query of get_personalized_news_for_user raises: the except clause
\* returns {"error": str(e)}.
QueryFails ==
    /\ pz_pc = "call"
    /\ pz_in.user_found
    /\ pz_out' = [personalized_news |-> <<>>, result |-> ErrorResult]
    /\ pz_pc' = "failed"
    /\ UNCHANGED <<pz_in, dedupVars, enrichVars, schedVars, ingestVars, news,
                   batchVars, deliveryVars, crawlVars>>

---------------------------------------------------------------------------
(* The digest: ContentGenerator.generate_user_content, _optimize_content *)

\* list without its k-th element
Without(list, k) == SubSeq(list, 1, k - 1) \o SubSeq(list, k + 1, Len(list))

\* A plausible slip: reverse=True is missing.
RECURSIVE sorted_oldest_first(_)
sorted_oldest_first(news_list) ==
    IF news_list = <<>> THEN <<>>
    ELSE LET k == CHOOSE k \in 1..Len(news_list) :
                     /\ \A j \in 1..Len(news_list) :
                           ~StrLess(news_list[j].published_at,
                                    news_list[k].published_at)
                     /\ \A j \in 1..(k - 1) :
                           StrLess(news_list[k].published_at,
                                   news_list[j].published_at)
         IN  <<news_list[k]>> \o sorted_oldest_first(Without(news_list, k))

\* sorted(news_list, key=lambda x: x.get("published_at", ""), reverse=True):
\* the strings are compared; equal keys keep the order of the list.
RECURSIVE sorted_desc(_)
sorted_desc(news_list) ==
    IF news_list = <<>> THEN <<>>
    ELSE LET k == CHOOSE k \in 1..Len(news_list) :
                     /\ \A j \in 1..Len(news_list) :
                           ~StrLess(news_list[k].published_at,
                                    news_list[j].published_at)
                     /\ \A j \in 1..(k - 1) :
                           StrLess(news_list[j].published_at,
                                   news_list[k].published_at)
         IN  <<news_list[k]>> \o sorted_desc(Without(news_list, k))

\* if len(news_list) > cap: sorted(...)[:cap], else the list as it is
Capped(news_list, cap) ==
    IF Len(news_list) > cap THEN Take(sorted_desc(news_list), cap) ELSE news_list

\* sum(len(news_list) for news_list in groups.values())
RECURSIVE TotalLen(_, _)
TotalLen(groups, names) ==
    IF names = {} THEN 0
    ELSE LET name == CHOOSE name \in names : TRUE
         IN  Len(groups[name]) + TotalLen(groups, names \ {name})

\* A plausible slip: the count of the matcher is kept.
optimize_content_stale(personalized_data) ==
    [error |-> FALSE,
     total_news |-> personalized_data.total_news,
     news_by_category |-> [name \in DOMAIN personalized_data.news_by_category |->
                              Capped(personalized_data.news_by_category[name],
                                     CategoryCap)],
     news_by_company |-> [name \in DOMAIN personalized_data.news_by_company |->
                             Capped(personalized_data.news_by_company[name],
                                    CompanyCap)],
     controversial_news |-> Capped(personalized_data.controversial_news,
                                   ControversialCap)]

\* ContentGenerator._optimize_content
optimize_content(personalized_data) ==
    LET by_category == [name \in DOMAIN personalized_data.news_by_category |->
                           Capped(personalized_data.news_by_category[name],
                                  CategoryCap)]
        by_company == [name \in DOMAIN personalized_data.news_by_company |->
                          Capped(personalized_data.news_by_company[name],
                                 CompanyCap)]
        controversial == Capped(personalized_data.controversial_news,
                                ControversialCap)
    IN  [error |-> FALSE,
         total_news |-> TotalLen(by_category, DOMAIN by_category)
                          + TotalLen(by_company, DOMAIN by_company)
                          + Len(controversial),
         news_by_category |-> by_category,
         news_by_company |-> by_company,
         controversial_news |-> controversial]

\* generate_user_content after get_personalized_news_for_user(limit=20):
\* an error or an empty result returns None, otherwise the content is
\* optimized.
OptimizeContent ==
    /\ pz_pc = "result"
    /\ pz_in.limit = DigestLimit
    /\ ~pz_out.result.error
    /\ pz_out.result.total_news # 0
    /\ pz_out' = [personalized_news |-> pz_out.personalized_news,
                  result |-> pz_out.result,
                  digest |-> optimize_content(pz_out.result)]
    /\ pz_pc' = "digest"
    /\ UNCHANGED <<pz_in, dedupVars, enrichVars, schedVars, ingestVars, news,
                   batchVars, deliveryVars, crawlVars>>

\* generate_user_content returns None: "error" is in personalized_data, or
\* its total_news is 0.
ReturnNone ==
    /\ pz_pc \in {"result", "failed"}
    /\ pz_in.limit = DigestLimit
    /\ pz_out.result.error \/ pz_out.result.total_news = 0
    /\ pz_out' = [personalized_news |-> pz_out.personalized_news,
                  result |-> pz_out.result,
                  returned |-> "None"]
    /\ pz_pc' = "none"
    /\ UNCHANGED <<pz_in, dedupVars, enrichVars, schedVars, ingestVars, news,
                   batchVars, deliveryVars, crawlVars>>

\* SpecMatch: the matcher on every small table and set of subscriptions
InitMatch ==
    /\ DedupOff /\ SchedOff /\ IngestOff /\ news = <<>> /\ BatchOff /\ DeliveryOff
    /\ EnrichOff /\ CrawlOff
    /\ pz_in \in [news : Tables(MatchPool, MaxNews),
                  user_found : BOOLEAN,
                  category_ids : SUBSET Categories,
                  company_names : SUBSET Companies,
                  limit : 1..MaxLimit \cup {DigestLimit}]
    /\ pz_out = <<>>
    /\ pz_pc = "call"

\* SpecDigest: the digest of a subscriber of one category and one company
InitDigest ==
    /\ DedupOff /\ SchedOff /\ IngestOff /\ news = <<>> /\ BatchOff /\ DeliveryOff
    /\ EnrichOff /\ CrawlOff
    /\ pz_in \in [news : Tables(DigestPool, MaxMatched),
                  user_found : {TRUE},
                  category_ids : {{"c1"}},
                  company_names : {{"k1"}},
                  limit : {DigestLimit}]
    /\ pz_out = <<>>
    /\ pz_pc = "call"

NextMatch == GetPersonalizedNews \/ QueryFails \/ OptimizeContent \/ ReturnNone

SpecMatch == InitMatch /\ [][NextMatch]_vars

SpecDigest == InitDigest /\ [][NextMatch]_vars

---------------------------------------------------------------------------
(* The crawl: NewsCrawler.crawl_all_categories *)

MaxPairItems == 2    \* most items an adapter returns for one pair

\* self.sources and the categories argument, in the order they are iterated
sources == <<"naver", "yonhap">>
categories == <<"politics", "economy">>

\* The (source, category) pairs in the order of the two nested loops
Pairs ==
    [k \in 1..(Len(sources) * Len(categories)) |->
        [source |-> sources[((k - 1) \div Len(categories)) + 1],
         category |-> categories[((k - 1) % Len(categories)) + 1]]]

\* What source.crawl(page, category) does for a pair: it raises, or returns
\* a list of the pair's items.
PairOutcomes(pair) ==
    {[raised |-> TRUE, items |-> <<>>]}
    \cup {[raised |-> FALSE,
           items |-> [n \in 1..m |-> [source |-> pair.source,
                                      category |-> pair.category, n |-> n]]] :
          m \in 0..MaxPairItems}

\* A plausible slip: the list is assigned, not extended.
extend_assign(all_news, outcome) ==
    IF outcome.raised THEN all_news ELSE outcome.items

\* all_news.extend(news_items) in the try; the except clause logs and
\* continues.
extend(all_news, outcome) ==
    IF outcome.raised THEN all_news ELSE all_news \o outcome.items

\* async_playwright() and chromium.launch(...)
CrawlLaunch ==
    /\ crawl.pc = "call"
    /\ crawl' = [crawl EXCEPT !.pc = "crawl"]
    /\ UNCHANGED <<dedupVars, enrichVars, matchVars, schedVars, ingestVars, news,
                   batchVars, deliveryVars>>

\* The browser cannot be launched, or browser.new_page() raises before the
\* first category of a source: neither is inside the try of the inner loop,
\* the exception leaves crawl_all_categories.
CrawlBrowserFails ==
    /\ \/ crawl.pc = "call"
       \/ /\ crawl.pc = "crawl"
          /\ Len(crawl.outcomes) < Len(Pairs)
          /\ Len(crawl.outcomes) % Len(categories) = 0
    /\ crawl' = [crawl EXCEPT !.pc = "raised"]
    /\ UNCHANGED <<dedupVars, enrichVars, matchVars, schedVars, ingestVars, news,
                   batchVars, deliveryVars>>

\* One turn of the inner loop: news_items = await source.crawl(page,
\* category); all_news.extend(news_items), or the except clause.
CrawlPair ==
    /\ crawl.pc = "crawl"
    /\ Len(crawl.outcomes) < Len(Pairs)
    /\ \E outcome \in PairOutcomes(Pairs[Len(crawl.outcomes) + 1]) :
          crawl' = [crawl EXCEPT !.outcomes = Append(@, outcome),
                                 !.all_news = extend(@, outcome)]
    /\ UNCHANGED <<dedupVars, enrichVars, matchVars, schedVars, ingestVars, news,
                   batchVars, deliveryVars>>

\* After the loops: the browser is closed, the number of items is logged and
\* all_news returned.
CrawlFinish ==
    /\ crawl.pc = "crawl"
    /\ Len(crawl.outcomes) = Len(Pairs)
    /\ crawl' = [crawl EXCEPT !.pc = "returned", !.reported = Len(crawl.all_news)]
    /\ UNCHANGED <<dedupVars, enrichVars, matchVars, schedVars, ingestVars, news,
                   batchVars, deliveryVars>>

InitCrawl ==
    /\ DedupOff /\ SchedOff /\ IngestOff /\ news = <<>> /\ BatchOff /\ DeliveryOff
    /\ EnrichOff /\ MatchOff
    /\ crawl = [pc |-> "call", outcomes |-> <<>>, all_news |-> <<>>, reported |-> 0]

NextCrawl == CrawlLaunch \/ CrawlBrowserFails \/ CrawlPair \/ CrawlFinish

SpecCrawl == InitCrawl /\ [][NextCrawl]_vars

---------------------------------------------------------------------------
(* The fetches of one crawl and the delay between them: crawl_all_categories
   of news_crawler.py (the scheduler's crawl, module "news_crawler") and of
   crawler.py (run_news_crawling, module "crawler") *)

\* module     which of the two loops runs
\* k          the pair the loops are at
\* in_flight  page.goto calls that have begun and not ended
\* fetched    some fetch has ended
\* slept      asyncio.sleep(1) has completed since the last fetch ended
\* last       how the last fetch ended: "ok", or "failed" (the adapter caught
\*            the exception of page.goto and returned [])
\* gap        at the begin of a fetch: "first", or whether the delay has
\*            elapsed since the fetch before it, and how that fetch ended
\* log        per pair: "ok", "failed", or "raised" when an exception reached
\*            the except clause of the loop
FetchStart(module) ==
    [pc |-> "loop", module |-> module, k |-> 1, in_flight |-> 0,
     fetched |-> FALSE, slept |-> FALSE, last |-> "none",
     gap |-> [delayed |-> TRUE, after |-> "none"], log |-> <<>>]

\* news_crawler.py opens one page per source, before the first category and
\* outside the try; crawler.py opens one page per pair in crawl_category,
\* before its try.
NeedsPage(c) == c.module = "crawler" \/ (c.k - 1) % Len(categories) = 0

\* page = await browser.new_page(): an exception leaves crawl_all_categories
\* in news_crawler.py and reaches the except clause of the loop in
\* crawler.py.
FetchNewPage ==
    /\ crawl.pc = "loop"
    /\ crawl.k <= Len(Pairs)
    /\ \E raises \in BOOLEAN :
          crawl' = IF raises /\ NeedsPage(crawl)
                   THEN [crawl EXCEPT !.pc = IF crawl.module = "crawler"
                                             THEN "except" ELSE "raised"]
                   ELSE [crawl EXCEPT !.pc = "page"]
    /\ UNCHANGED <<dedupVars, enrichVars, matchVars, schedVars, ingestVars, news,
                   batchVars, deliveryVars>>

\* await page.goto(url, ...) begins.
FetchBegin ==
    /\ crawl.pc = "page"
    /\ crawl' = [crawl EXCEPT
                   !.pc = "goto",
                   !.in_flight = @ + 1,
                   !.gap = [delayed |-> ~crawl.fetched \/ crawl.slept,
                            after |-> crawl.last]]
    /\ UNCHANGED <<dedupVars, enrichVars, matchVars, schedVars, ingestVars, news,
                   batchVars, deliveryVars>>

\* page.goto and the extraction end: the items are returned, or an exception
\* is caught by the adapter's own except clause, which returns [].  In
\* crawler.py the finally clause then closes the page.
FetchEnd ==
    /\ crawl.pc = "goto"
    /\ \E outcome \in {"ok", "failed"} :
          crawl' = [crawl EXCEPT
                      !.pc = IF crawl.module = "crawler" THEN "close" ELSE "sleep",
                      !.in_flight = @ - 1,
                      !.fetched = TRUE,
                      !.slept = FALSE,
                      !.last = outcome]
    /\ UNCHANGED <<dedupVars, enrichVars, matchVars, schedVars, ingestVars, news,
                   batchVars, deliveryVars>>

\* finally: await page.close() of crawl_category: an exception of it leaves
\* crawl_category and reaches the except clause of the loop.
FetchPageClose ==
    /\ crawl.pc = "close"
    /\ \E raises \in BOOLEAN :
          crawl' = [crawl EXCEPT !.pc = IF raises THEN "except" ELSE "sleep"]
    /\ UNCHANGED <<dedupVars, enrichVars, matchVars, schedVars, ingestVars, news,
                   batchVars, deliveryVars>>

\* all_news.extend(...) and await asyncio.sleep(1), the last statements of
\* the try
FetchSleep ==
    /\ crawl.pc = "sleep"
    /\ crawl' = [crawl EXCEPT !.pc = "loop", !.k = @ + 1, !.slept = TRUE,
                              !.log = Append(@, crawl.last)]
    /\ UNCHANGED <<dedupVars, enrichVars, matchVars, schedVars, ingestVars, news,
                   batchVars, deliveryVars>>

\* except Exception as e: logger.error(...); continue
FetchExcept ==
    /\ crawl.pc = "except"
    /\ crawl' = [crawl EXCEPT !.pc = "loop", !.k = @ + 1,
                              !.log = Append(@, "raised")]
    /\ UNCHANGED <<dedupVars, enrichVars, matchVars, schedVars, ingestVars, news,
                   batchVars, deliveryVars>>

\* return all_news
FetchReturn ==
    /\ crawl.pc = "loop"
    /\ crawl.k = Len(Pairs) + 1
    /\ crawl' = [crawl EXCEPT !.pc = "returned"]
    /\ UNCHANGED <<dedupVars, enrichVars, matchVars, schedVars, ingestVars, news,
                   batchVars, deliveryVars>>

InitFetch ==
    /\ DedupOff /\ SchedOff /\ IngestOff /\ news = <<>> /\ BatchOff /\ DeliveryOff
    /\ EnrichOff /\ MatchOff
    /\ crawl \in {FetchStart("news_crawler"), FetchStart("crawler")}

NextFetch ==
    \/ FetchNewPage
    \/ FetchBegin
    \/ FetchEnd
    \/ FetchPageClose
    \/ FetchSleep
    \/ FetchExcept
    \/ FetchReturn

SpecFetch == InitFetch /\ [][NextFetch]_vars

---------------------------------------------------------------------------
(* One item of a listing page, as the three adapters turn it into a
   candidate: crawl_category of crawler.py ("crawler"), NaverNewsSource.crawl
   ("naver") and YonhapNewsSource.crawl ("yonhap") of news_crawler.py *)

MaxAgo == 2          \* largest N of "N hours ago", "N minutes ago", "N days ago"

Adapters == {"crawler", "naver", "yonhap"}

\* A URL is the sequence of its parts: scheme, "//", host, "/" and path.
\* source.base_url: a scheme and a host, no path
base_url == <<"https:", "//", "host">>

\* get_attribute("href"): None when the element has no href, or a string:
\* empty, absolute, protocol-relative, root-relative or relative.
NoLink == [present |-> FALSE, url |-> <<>>]

Hrefs ==
    {NoLink} \cup
    {[present |-> TRUE, url |-> u] :
        u \in {<<>>,
               <<"https:", "//", "host", "/", "p">>,
               <<"//", "cdn", "/", "p">>,
               <<"/", "p">>,
               <<"p">>}}

\* link.startswith("http"), link.startswith("//"), link.startswith("/")
startswith_http(u) == Len(u) >= 1 /\ u[1] = "https:"
startswith_slashes(u) == Len(u) >= 1 /\ u[1] = "//"
startswith_slash(u) == Len(u) >= 1 /\ u[1] \in {"/", "//"}

\* urllib.parse.urljoin(base, url) for a base without a path
urljoin(base, u) ==
    IF u = <<>> THEN base
    ELSE IF startswith_http(u) THEN u
    ELSE IF startswith_slashes(u) THEN <<base[1]>> \o u
    ELSE IF startswith_slash(u) THEN base \o u
    ELSE base \o <<"/">> \o u

\* not link
falsy(link) == ~link.present \/ link.url = <<>>

\* crawl_category: if link and not link.startswith("http"):
\*                     link = urljoin(source.base_url, link)
crawler_link(link) ==
    IF ~falsy(link) /\ ~startswith_http(link.url)
    THEN [present |-> TRUE, url |-> urljoin(base_url, link.url)]
    ELSE link

\* NaverNewsSource.crawl: "//" is given the scheme, "/" the base URL
naver_link(link) ==
    IF startswith_slashes(link.url)
    THEN [present |-> TRUE, url |-> <<"https:">> \o link.url]
    ELSE IF startswith_slash(link.url)
    THEN [present |-> TRUE, url |-> base_url \o link.url]
    ELSE link

\* YonhapNewsSource.crawl: "/" is given the base URL
yonhap_link(link) ==
    IF startswith_slash(link.url)
    THEN [present |-> TRUE, url |-> base_url \o link.url]
    ELSE link

\* Times are counted in minutes.
MinutesPerHour == 60 * 1
MinutesPerDay == 24 * 60

\* datetime.now() while the item is handled: the crawl time
CrawlTime == 10 * MinutesPerDay

\* A time text is the sequence of its parts: a number (n is its value), the
\* words "sigan" (hours), "bun" (minutes), "il" (days) and "jeon" (ago), a
\* space, or a date-time in one of several notations (n is then its value).
Num(n) == [t |-> "num", n |-> n]
Word(w) == [t |-> w, n |-> 0]
Ago(n, unit) == <<Num(n), Word(unit), Word(" "), Word("jeon")>>

RelativeTexts == {Ago(n, unit) : n \in 1..MaxAgo, unit \in {"sigan", "bun", "il"}}

\* "%Y-%m-%d %H:%M:%S", "%Y-%m-%d %H:%M", "%Y.%m.%d %H:%M"
strptime_formats == {"Y-m-d H:M:S", "Y-m-d H:M", "Y.m.d H:M"}

AbsoluteTime == CrawlTime - 5

\* A date-time written with "-" and ":", with "." and ":", or with "/".
AbsoluteTexts ==
    {<<[t |-> f, n |-> AbsoluteTime]>> :
        f \in strptime_formats \cup {"Y/m/d H:M", "Y-m-dTH:M"}}

\* Texts no branch parses: no number, a number apart from its unit, a word.
OtherTexts ==
    {<<Word("sigan"), Word(" "), Word("jeon")>>,
     <<Num(1), Word(" "), Word("sigan"), Word(" "), Word("jeon")>>,
     <<Word("bangeum")>>,
     <<>>}

\* time_element and its inner_text(): no element, or a text
NoTime == [present |-> FALSE, text |-> <<>>]

TimeTexts ==
    {NoTime} \cup
    {[present |-> TRUE, text |-> x] :
        x \in RelativeTexts \cup AbsoluteTexts \cup OtherTexts}

\* "<unit> 전" in time_text
ago_in(text, unit) ==
    \E i \in 1..(Len(text) - 2) :
        text[i].t = unit /\ text[i + 1].t = " " /\ text[i + 2].t = "jeon"

\* re.search(r'(\d+)<unit>', time_text): the first number that the unit
\* follows at once; None is [none |-> TRUE].
NoneTime == [none |-> TRUE, value |-> 0]

search(text, unit) ==
    LET K == {i \in 1..(Len(text) - 1) : text[i].t = "num" /\ text[i + 1].t = unit}
    IN  IF K = {} THEN NoneTime
        ELSE [none |-> FALSE,
              value |-> text[CHOOSE i \in K : \A j \in K : i <= j].n]

\* "-" in time_text and ":" in time_text
dash_and_colon(text) ==
    \E i \in 1..Len(text) : text[i].t \in {"Y-m-d H:M:S", "Y-m-d H:M", "Y-m-dTH:M"}

\* datetime.strptime(time_text, fmt) for the formats in turn
strptime_any(text) ==
    IF Len(text) = 1 /\ text[1].t \in strptime_formats
    THEN [none |-> FALSE, value |-> text[1].n]
    ELSE NoneTime

\* NewsCrawler._parse_time
parse_time(text, now) ==
    IF ago_in(text, "sigan")
    THEN LET hours == search(text, "sigan")
         IN  IF hours.none THEN NoneTime
             ELSE [none |-> FALSE, value |-> now - hours.value * MinutesPerHour]
    ELSE IF ago_in(text, "bun")
    THEN LET minutes == search(text, "bun")
         IN  IF minutes.none THEN NoneTime
             ELSE [none |-> FALSE, value |-> now - minutes.value]
    ELSE IF ago_in(text, "il")
    THEN LET days == search(text, "il")
         IN  IF days.none THEN NoneTime
             ELSE [none |-> FALSE, value |-> now - days.value * MinutesPerDay]
    ELSE IF dash_and_colon(text) THEN strptime_any(text)
    ELSE NoneTime

\* A plausible slip: the fallback to now is missing.
published_time_unset(parsed, now) == parsed.value

\* if not published_time: published_time = datetime.now()
published_time(parsed, now) == IF parsed.none THEN now ELSE parsed.value

NotEmitted == [emitted |-> FALSE, link |-> NoLink, published_at |-> 0]

\* crawl_category, one turn of its loop over the articles
crawl_category_item(item, now) ==
    [emitted |-> TRUE,
     link |-> crawler_link(item.href),
     published_at |-> published_time(IF item.time.present
                                     THEN parse_time(item.time.text, now)
                                     ELSE NoneTime, now)]

\* NaverNewsSource.crawl, one turn of its loop: _get_article_content reads
\* the time text and returns datetime.now() whatever it says.
naver_item(item, now) ==
    IF falsy(item.href) THEN NotEmitted
    ELSE [emitted |-> TRUE, link |-> naver_link(item.href), published_at |-> now]

\* YonhapNewsSource.crawl, one turn of its loop: published_at=datetime.now()
yonhap_item(item, now) ==
    IF falsy(item.href) THEN NotEmitted
    ELSE [emitted |-> TRUE, link |-> yonhap_link(item.href), published_at |-> now]

AdapterOff(adapter, item) ==
    [pc |-> "item", adapter |-> adapter, item |-> item, candidate |-> NotEmitted]

CrawlerItem ==
    /\ crawl.pc = "item" /\ crawl.adapter = "crawler"
    /\ crawl' = [crawl EXCEPT !.pc = "done",
                   !.candidate = crawl_category_item(crawl.item, CrawlTime)]
    /\ UNCHANGED <<dedupVars, enrichVars, matchVars, schedVars, ingestVars, news,
                   batchVars, deliveryVars>>

NaverItem ==
    /\ crawl.pc = "item" /\ crawl.adapter = "naver"
    /\ crawl' = [crawl EXCEPT !.pc = "done",
                   !.candidate = naver_item(crawl.item, CrawlTime)]
    /\ UNCHANGED <<dedupVars, enrichVars, matchVars, schedVars, ingestVars, news,
                   batchVars, deliveryVars>>

YonhapItem ==
    /\ crawl.pc = "item" /\ crawl.adapter = "yonhap"
    /\ crawl' = [crawl EXCEPT !.pc = "done",
                   !.candidate = yonhap_item(crawl.item, CrawlTime)]
    /\ UNCHANGED <<dedupVars, enrichVars, matchVars, schedVars, ingestVars, news,
                   batchVars, deliveryVars>>

InitAdapter ==
    /\ DedupOff /\ SchedOff /\ IngestOff /\ news = <<>> /\ BatchOff /\ DeliveryOff
    /\ EnrichOff /\ MatchOff
    /\ crawl \in {AdapterOff(adapter, [href |-> href, time |-> time]) :
                    adapter \in Adapters, href \in Hrefs, time \in TimeTexts}

NextAdapter == CrawlerItem \/ NaverItem \/ YonhapItem

SpecAdapter == InitAdapter /\ [][NextAdapter]_vars

---------------------------------------------------------------------------
(* SpecSave: run_news_crawling, called again and again, with the count
   that save_news_to_db returns *)

MaxCrawled == 2      \* longest list of news one crawl_all_categories returns
MaxCalls == 2        \* calls of run_news_crawling in one behaviour

\* The call's news_data between its two awaits and the dict it returned,
\* with the length of the News table when save_news_to_db was entered
\* (saved_count is 0 where the dict has no such key).
NoCall ==
    [pc |-> "idle", calls |-> 0, news_data |-> <<>>, before |-> 0,
     success |-> FALSE, crawled_count |-> 0, saved_count |-> 0,
     committed |-> FALSE]

\* The rows the loop of save_news_to_db has added when it has handled all of
\* news_data: saved_count at that point.
added(rows, news_data) == Len(save_loop(rows, news_data)) - Len(rows)

\* run_news_crawling up to its first await: the browser has started and
\* crawl_all_categories returns news_data.
RunCrawl ==
    /\ crawl.pc \in {"idle", "returned"}
    /\ crawl.calls < MaxCalls
    /\ \E news_data \in SeqsUpTo(SavePool, MaxCrawled) :
          crawl' = [NoCall EXCEPT !.pc = "crawled", !.calls = crawl.calls + 1,
                                  !.news_data = news_data]
    /\ UNCHANGED <<dedupVars, enrichVars, matchVars, schedVars, ingestVars, news,
                   batchVars, deliveryVars>>

\* save_news_to_db and the return of run_news_crawling: the rows that are
\* new are added and counted.  Either the commit succeeds, or the database
\* raises after some of the rows were added (at a query, at a flush or at
\* the commit): the except branch rolls back and the function goes on to
\* return saved_count as it stands.
RunSave ==
    /\ crawl.pc = "crawled"
    /\ \/ /\ news' = save_loop(news, crawl.news_data)
          /\ crawl' = [crawl EXCEPT
                         !.pc = "returned", !.before = Len(news),
                         !.success = TRUE,
                         !.crawled_count = Len(crawl.news_data),
                         !.saved_count = added(news, crawl.news_data),
                         !.committed = TRUE]
       \/ \E saved_count \in 0..added(news, crawl.news_data) :
             /\ news' = news
             /\ crawl' = [crawl EXCEPT
                            !.pc = "returned", !.before = Len(news),
                            !.success = TRUE,
                            !.crawled_count = Len(crawl.news_data),
                            !.saved_count = saved_count,
                            !.committed = FALSE]
    /\ UNCHANGED <<dedupVars, enrichVars, matchVars, schedVars, ingestVars,
                   batchVars, deliveryVars>>

\* run_news_crawling when NewsCrawler cannot start its browser: the dict of
\* the except branch, with success False and no count.
RunNewsCrawlingFails ==
    /\ crawl.pc \in {"idle", "returned"}
    /\ crawl.calls < MaxCalls
    /\ crawl' = [NoCall EXCEPT !.pc = "returned", !.calls = crawl.calls + 1,
                               !.before = Len(news)]
    /\ UNCHANGED <<dedupVars, enrichVars, matchVars, schedVars, ingestVars, news,
                   batchVars, deliveryVars>>

InitSave ==
    /\ DedupOff /\ SchedOff /\ IngestOff /\ news = <<>> /\ BatchOff /\ DeliveryOff
    /\ EnrichOff /\ MatchOff
    /\ crawl = NoCall

NextSave ==
    \/ RunCrawl
    \/ RunSave
    \/ RunNewsCrawlingFails

SpecSave == InitSave /\ [][NextSave]_vars

---------------------------------------------------------------------------
(* Claims *)

\* The specification's normalized title: trimmed, then case-folded.
NormalizedTitle(title) == lower(strip(title))

SameTitle(x, y) == NormalizedTitle(x.title) = NormalizedTitle(y.title)

SameUrlOrTitle(x, y) == x.url = y.url \/ SameTitle(x, y)

\* The items of a list that no earlier item of the list is the Same as, in
\* the list's order.
FirstOf(items, Same(_, _)) ==
    LET K == {i \in 1..Len(items) :
                 \A j \in 1..(i - 1) : ~Same(items[j], items[i])}
    IN  [k \in 1..Cardinality(K) |->
            items[CHOOSE i \in K : Cardinality({j \in K : j < i}) = k - 1]]

ActiveRuns == {r \in RunIds : runs[r].pc \in {"crawl", "store"}}

\* C1 (as stated; refuted): at every moment at most one run of the ingestion
\* job is active, whether it was started by the schedule or by the manual
\* trigger endpoint.
C1_AtMostOneActiveRun == Cardinality(ActiveRuns) <= 1

C4_NoDuplicateRows ==
    \A a, b \in Ids :
        (a # b /\ news[a].is_active /\ news[b].is_active)
            => ~SameUrlOrTitle(news[a], news[b])

\* C5: every row a reader can see has either no enrichment column written and
\* is_processed false, or all of them written by one run and is_processed
\* true.
C5_AtomicEnrichment ==
    \A a \in Ids :
        \/ /\ ~news[a].is_processed
           /\ \A f \in EnrichmentFields : news[a].enr[f] = Unwritten
        \/ /\ news[a].is_processed
           /\ \E r \in BatchRunIds :
                 \A f \in EnrichmentFields : news[a].enr[f] = r

\* C5 witness: a run has committed a batch in which one article was enriched
\* and another failed.
C5_Witness ==
    \E r \in BatchRunIds :
        /\ bruns[r].pc = "done"
        /\ bruns[r].committed # {}
        /\ bruns[r].failed # {}

\* C6 (as stated; refuted): the enrichment columns of an article are written
\* by at most one run, and no run writes an article that is already
\* processed.
C6_WrittenOnce ==
    \A a \in Ids :
        Cardinality({r \in BatchRunIds : a \in bruns[r].committed}) <= 1

\* C7: a batch selection made after a run has committed selects none of the
\* articles that run marked processed.
C7_NoReselect ==
    \A r \in BatchRunIds :
        \A q \in bruns[r].sawDone : bruns[r].batch \cap bruns[q].committed = {}

\* C7 witness: a run selected a batch after another run had committed its
\* own.
C7_Witness ==
    \E r \in BatchRunIds :
        \E q \in bruns[r].sawDone :
            bruns[q].committed # {} /\ bruns[r].batch # {}

C9_EnrichedWritten ==
    \A r \in RunIds :
        \A k \in 1..Len(aiTasks[r].items) :
            aiTasks[r].status[k] = "ok" =>
                \A a \in Ids :
                    news[a].title = aiTasks[r].items[k].title
                        => news[a].is_processed

\* C10 (as stated; refuted): a firing of the delivery job hands one digest
\* to the dispatcher for every subscriber eligible at that time.
C10_EveryEligibleHanded ==
    emailJob.pc = "done" => emailJob.handed = emailJob.eligible

NoOpinions(r) ==
    ~r.is_controversial => r.pros_summary = "None" /\ r.cons_summary = "None"

\* C11: every result of process_news and every row it is stored on with
\* is_controversial false has pros_summary and cons_summary null, on the
\* provider-failure and whole-article-failure paths too.
C11_NoOpinionsUnlessControversial ==
    /\ en_pc \in {"result", "stored"} => NoOpinions(en_out.result)
    /\ en_pc = "stored" => NoOpinions(en_out.row)

\* C11 witness: the provider answered with the flag false and an opinion
\* text for each side, and the result was stored as not controversial.
C11_Witness ==
    /\ en_pc = "stored"
    /\ en_in.content = "text"
    /\ ~en_in.controversy_response.raised
    /\ en_in.controversy_response.controversy = "false"
    /\ en_in.controversy_response.pros = "text"
    /\ en_in.controversy_response.cons = "text"
    /\ ~en_out.row.is_controversial

\* The sentiment analysis of the input does not fail: the provider answers
\* and both patterns match.
SentimentComputable(news_item) ==
    /\ ~news_item.sentiment_response.raised
    /\ news_item.sentiment_response.score_match
    /\ news_item.sentiment_response.label # "NoMatch"

\* C14 (as stated; refuted): whatever sub-results fail, the result is
\* stored, each failed sub-result holds its default (embedding null,
\* sentiment (0.0, neutral), controversy false) and every sub-result that
\* did not fail holds its computed value.
C14_OnlyFailedDegraded ==
    en_pc = "stored" =>
        /\ en_out.row.is_processed
        /\ en_out.row.embedding =
              (IF en_in.embedding_outcome = "ok" THEN "vector" ELSE "None")
        /\ en_out.row.keywords =
              (IF en_in.keywords_outcome = "ok" THEN "keywords" ELSE "empty_list")
        /\ IF SentimentComputable(en_in)
           THEN /\ en_out.row.sentiment_score
                     = clamp(en_in.sentiment_response.score)
                /\ en_out.row.sentiment_label = en_in.sentiment_response.label
           ELSE /\ en_out.row.sentiment_score = 0
                /\ en_out.row.sentiment_label = "neutral"
        /\ (en_in.content = "None" \/ en_in.controversy_response.raised)
              => ~en_out.row.is_controversial

ServiceSentimentReturned == en_pc = "returned" /\ en_in.fn = "analyze_sentiment"

\* C12 (as stated; refuted): whatever the provider answers, the score that
\* sentiment analysis returns lies in [-1.0, 1.0].
C12_ScoreInRange ==
    ServiceSentimentReturned =>
        en_out.score >= 0 - ScoreOne /\ en_out.score <= ScoreOne

\* No provider gave an answer the parser accepts.
ServiceUnparsable(a) ==
    LET answered(p, available) == available /\ ~p.raised /\ ~p.empty
    IN  /\ answered(a.gemini, a.gemini_available) => ~(a.gemini.bar /\ a.gemini.numeric)
        /\ (~answered(a.gemini, a.gemini_available)
             /\ answered(a.openai, a.openai_available))
               => ~(a.openai.bar /\ a.openai.numeric)

\* C13 (as stated; refuted): when the answer cannot be parsed or the
\* provider call fails, sentiment analysis returns (0.0, neutral); and the
\* returned label is always one of positive, negative, neutral.
C13_DefaultAndLabel ==
    ServiceSentimentReturned =>
        /\ en_out.label \in {"positive", "negative", "neutral"}
        /\ ServiceUnparsable(en_in) => en_out = [label |-> "neutral", score |-> 0]

\* C15 (as stated; refuted): with both providers configured, the primary is
\* called first, the secondary exactly when the primary raised or answered
\* with an empty or short text, and the deterministic fallback is returned
\* exactly when both failed, an empty answer of the secondary being a
\* failure.
C15_ProviderOrder ==
    (/\ en_pc = "returned" /\ en_in.fn = "summarize_news"
     /\ en_in.content = "text"
     /\ en_in.gemini_available /\ en_in.openai_available) =>
        /\ en_out.gemini_called
        /\ en_out.openai_called <=> en_in.gemini \in {"raise", "empty", "short"}
        /\ en_out.summary = "simple_summary"
              <=> (/\ en_in.gemini \in {"raise", "empty", "short"}
                   /\ en_in.openai \in {"raise", "empty"})

\* A row that meets the selection the matcher is specified to make for the
\* subscriptions of pz_in.
Selected(row) ==
    /\ row.is_processed /\ row.is_active
    /\ TimeLeq(WindowStart, row.published_at)
    /\ TimeLeq(row.published_at, WindowEnd)
    /\ \/ row.categories \cap pz_in.category_ids # {}
       \/ row.mentioned_companies \cap pz_in.company_names # {}

\* The matcher has returned a result that is not an error.
Matched == pz_pc \in {"result", "digest"} /\ ~pz_out.result.error

\* C16 (as stated; refuted): every article of a matcher result is processed,
\* active, published within the lookback window, and belongs to a subscribed
\* category or mentions a subscribed company, for every set of
\* subscriptions, the empty one included.
C16_OnlySelectedArticles ==
    Matched =>
        \A k \in 1..Len(pz_out.personalized_news) :
            Selected(pz_in.news[pz_out.personalized_news[k].id])

\* C17 (as stated; refuted): for a subscriber without active subscriptions,
\* whom no article can match, the matcher returns total_news = 0 and no
\* error.
C17_NoContentWithoutSubscriptions ==
    (/\ pz_pc \in {"result", "digest"}
     /\ pz_in.user_found
     /\ pz_in.category_ids = {} /\ pz_in.company_names = {}) =>
        /\ ~pz_out.result.error
        /\ pz_out.result.total_news = 0

\* The elements of a list
Range(list) == {list[k] : k \in 1..Len(list)}

\* C18: grouping is a multi-membership projection of the matched list: a
\* matched article is in the group of every subscribed category it belongs
\* to and of every subscribed company it mentions, exactly once, and every
\* article of any group is an article of the matched list.
C18_GroupsProjectMatched ==
    Matched =>
        LET matched == pz_out.personalized_news
            by_category == pz_out.result.news_by_category
            by_company == pz_out.result.news_by_company
            InGroup(groups, name, item) ==
                /\ name \in DOMAIN groups
                /\ Cardinality({k \in 1..Len(groups[name]) :
                                   groups[name][k] = item}) = 1
        IN  /\ \A item \in Range(matched) :
                 /\ \A category \in pz_in.category_ids :
                        category \in pz_in.news[item.id].categories
                            => InGroup(by_category, category, item)
                 /\ \A company \in pz_in.company_names :
                        company \in item.mentioned_companies
                            => InGroup(by_company, company, item)
            /\ \A name \in DOMAIN by_category :
                   Range(by_category[name]) \subseteq Range(matched)
            /\ \A name \in DOMAIN by_company :
                   Range(by_company[name]) \subseteq Range(matched)

\* Three matched articles of the subscribed category c1, two of which
\* mention the subscribed company k1, one of them being of category c2 as
\* well: a category group of 3 and a company group of 2.
C18_Witness ==
    /\ pz_pc = "result" /\ ~pz_out.result.error
    /\ pz_in.category_ids = {"c1"} /\ pz_in.company_names = {"k1"}
    /\ Len(pz_out.personalized_news) = 3
    /\ \E k \in 1..3 :
          pz_in.news[pz_out.personalized_news[k].id].categories = {"c1", "c2"}
    /\ Len(pz_out.result.news_by_category["c1"]) = 3
    /\ Len(pz_out.result.news_by_company["k1"]) = 2

\* The published time of the row a dictionary was made of
PublishedAt(item) == pz_in.news[item.id].published_at

\* The list is ordered newest-first by published time
NewestFirst(list) ==
    \A j, k \in 1..Len(list) : j < k => TimeLeq(PublishedAt(list[k]), PublishedAt(list[j]))

\* kept holds n articles of the list or all of them, and none of the others
\* is more recent than a kept one
MostRecentOf(kept, list, n) ==
    /\ Range(kept) \subseteq Range(list)
    /\ Cardinality(Range(kept)) = Len(kept)
    /\ Len(kept) = Min(n, Len(list))
    /\ \A item \in Range(list) \ Range(kept) :
           \A other \in Range(kept) : TimeLeq(PublishedAt(item), PublishedAt(other))

\* C19: the controversial list of a matcher result contains only matched
\* articles with is_controversial = true, is ordered newest-first by
\* published time, has at most 5 entries, and consists of the newest
\* controversial articles of the matched list.
C19_ControversialNewestFive ==
    Matched =>
        LET list == pz_out.result.controversial_news
            controversial == SelectSeq(pz_out.personalized_news,
                                       LAMBDA item : pz_in.news[item.id].is_controversial)
        IN  /\ \A item \in Range(list) : pz_in.news[item.id].is_controversial
            /\ NewestFirst(list)
            /\ Len(list) <= 5
            /\ MostRecentOf(list, controversial, 5)

\* Six controversial articles of different times are matched along with
\* none that is not: the list holds five and leaves out an oldest one.
C19_Witness ==
    /\ pz_pc = "result" /\ ~pz_out.result.error
    /\ Len(SelectSeq(pz_out.personalized_news, LAMBDA item : item.is_controversial)) = 6
    /\ Len(pz_out.result.controversial_news) = 5
    /\ PublishedAt(pz_out.result.controversial_news[1]) = Time(2, 0)
    /\ PublishedAt(pz_out.result.controversial_news[5]) = Time(1, 0)
    /\ \E item \in Range(pz_out.personalized_news) \ Range(pz_out.result.controversial_news) :
           PublishedAt(item) = Time(1, 0)

\* C20: in every digest each category group has at most 3 articles, each
\* company group at most 2 and the controversial list at most 3, and each
\* group consists of the most recently published articles of the group it
\* was made of.
C20_DigestCaps ==
    pz_pc = "digest" =>
        LET input == pz_out.result
            digest == pz_out.digest
        IN  /\ DOMAIN digest.news_by_category = DOMAIN input.news_by_category
            /\ DOMAIN digest.news_by_company = DOMAIN input.news_by_company
            /\ \A name \in DOMAIN digest.news_by_category :
                   /\ Len(digest.news_by_category[name]) <= 3
                   /\ MostRecentOf(digest.news_by_category[name],
                                   input.news_by_category[name], 3)
            /\ \A name \in DOMAIN digest.news_by_company :
                   /\ Len(digest.news_by_company[name]) <= 2
                   /\ MostRecentOf(digest.news_by_company[name],
                                   input.news_by_company[name], 2)
            /\ Len(digest.controversial_news) <= 3
            /\ MostRecentOf(digest.controversial_news, input.controversial_news, 3)

\* A digest made of a category group of 6, a company group of 6 and a
\* controversial list of 5, each with articles of three different times:
\* 3, 2 and 3 articles are kept and an older one is dropped from each.
C20_Witness ==
    /\ pz_pc = "digest"
    /\ Len(pz_out.result.news_by_category["c1"]) = 6
    /\ Len(pz_out.result.news_by_company["k1"]) = 6
    /\ Len(pz_out.result.controversial_news) = 5
    /\ Len(pz_out.digest.news_by_category["c1"]) = 3
    /\ Len(pz_out.digest.news_by_company["k1"]) = 2
    /\ Len(pz_out.digest.controversial_news) = 3
    /\ \E item \in Range(pz_out.result.news_by_category["c1"]) :
          /\ item \notin Range(pz_out.digest.news_by_category["c1"])
          /\ PublishedAt(item) = Time(1, 0)
          /\ \A other \in Range(pz_out.digest.news_by_category["c1"]) :
                 PublishedAt(other) # Time(1, 0)
    /\ \E item \in Range(pz_out.result.controversial_news) :
          /\ item \notin Range(pz_out.digest.controversial_news)
          /\ \E other \in Range(pz_out.digest.controversial_news) :
                 PublishedAt(other) # PublishedAt(item)

\* The entries a digest renders: one for each place of each group and of
\* the controversial list.
Rendered(digest) ==
    LET Places(kind, groups) ==
            UNION {{<<kind, name, k>> : k \in 1..Len(groups[name])} :
                   name \in DOMAIN groups}
    IN  Places("category", digest.news_by_category)
            \cup Places("company", digest.news_by_company)
            \cup {<<"controversial", "", k>> :
                     k \in 1..Len(digest.controversial_news)}

\* C21: in every digest total_news is the sum of the sizes of the truncated
\* category groups, of the truncated company groups and of the truncated
\* controversial list.
C21_TotalMatchesRendered ==
    pz_pc = "digest" =>
        pz_out.digest.total_news = Cardinality(Rendered(pz_out.digest))

\* Six matched articles of one category that mention one company, five of
\* them controversial: the matcher counted 6, the digest renders 3 + 2 + 3.
C21_Witness ==
    /\ pz_pc = "digest"
    /\ pz_out.result.total_news = 6
    /\ Len(pz_out.result.controversial_news) = 5
    /\ pz_out.digest.total_news = 8

\* C22 (as stated; refuted): a failure inside personalization or digest
\* assembly reaches the caller as an explicit error payload, and what the
\* caller is given tells a failed query from a successful one without
\* content.
C22_FailureIsExplicit ==
    /\ pz_pc = "failed" => pz_out.result.error
    /\ (pz_pc = "result" /\ pz_in.user_found) => ~pz_out.result.error
    /\ pz_pc = "none" =>
          pz_out.returned = IF pz_out.result.error THEN "error" ELSE "no_content"

\* The outputs of the pairs that did not fail, one after the other
RECURSIVE Concatenation(_)
Concatenation(outcomes) ==
    IF outcomes = <<>> THEN <<>>
    ELSE (IF Head(outcomes).raised THEN <<>> ELSE Head(outcomes).items)
            \o Concatenation(Tail(outcomes))

\* C23: whichever pairs the adapter fails for, the crawl goes through all
\* the pairs, returns the concatenation, in iteration order, of the outputs
\* of the pairs that did not fail, and reports its length.
C23_CrawlSkipsFailedPairs ==
    /\ crawl.pc \in {"crawl", "returned"} =>
          crawl.all_news = Concatenation(crawl.outcomes)
    /\ crawl.pc = "returned" =>
          /\ Len(crawl.outcomes) = Len(Pairs)
          /\ crawl.reported = Len(Concatenation(crawl.outcomes))

\* The adapter failed for the second pair and for the last one; the pairs
\* before and between them gave items, which are all returned.
C23_Witness ==
    /\ crawl.pc = "returned"
    /\ crawl.outcomes[2].raised /\ crawl.outcomes[Len(Pairs)].raised
    /\ Len(crawl.outcomes[1].items) = 2 /\ Len(crawl.outcomes[3].items) = 1
    /\ crawl.reported = 3
    /\ crawl.all_news[3].source = "yonhap"

\* The runs of the ingestion job the executor started and that have not
\* returned
CronRuns == {r \in RunIds : runs[r].via = "cron" /\ runs[r].pc \in {"crawl", "store"}}

\* C24: a failure raised inside a run of a scheduled job is caught at the
\* job boundary: the job function returns, the scheduler keeps running, and
\* the instance the run held is given back, so that a later trigger of the
\* job starts a run.
C24_FailureCaughtAtBoundary ==
    /\ [](/\ instances["news_crawling"] = Cardinality(CronRuns)
          /\ instances["email_sending"] = 0)
    /\ [][\A r \in RunIds :
             (runs[r].pc = "crawl" /\ runs'[r].raised) =>
                 /\ runs'[r].pc = "done"
                 /\ is_running' = is_running
                 /\ \A q \in RunIds \ {r} : runs'[q] = runs[q]]_vars

\* The first run of the job raised and returned; the scheduler is running
\* and the next firing of the cron trigger has started a second run.
C24_Witness ==
    /\ is_running
    /\ runs[1].pc = "done" /\ runs[1].raised /\ runs[1].via = "cron"
    /\ runs[2].pc = "crawl" /\ runs[2].via = "cron"

\* C25: while the scheduler is running, the introspection surface reports
\* exactly one entry per scheduled job, with its id, its name and its next
\* scheduled run time, and the ingestion job and the delivery job are among
\* the entries.
C25_OneEntryPerJob ==
    is_running =>
        LET entries == get_next_run_times(jobs)
            ids == {entries[k].id : k \in 1..Len(entries)}
        IN  /\ {"news_crawling", "email_sending"} \subseteq ids
            /\ ids \subseteq {"news_crawling", "email_sending", "test_crawling"}
            /\ Cardinality(ids) = Len(entries)
            /\ \A k \in 1..Len(entries) :
                   /\ entries[k].name # ""
                   /\ entries[k].next_run_time # "None"
                   /\ \E environment \in Environments :
                         \E j \in 1..Len(ScheduledJobs(environment)) :
                            entries[k] = ScheduledJobs(environment)[j]

\* The scheduler runs in the development environment and both jobs have
\* fired, the ingestion job twice: three entries are reported.
C25_Witness ==
    /\ is_running
    /\ Len(get_next_run_times(jobs)) = 3
    /\ runs[1].pc = "done" /\ runs[2].pc = "crawl"
    /\ emailJob.pc = "done"

\* The batches whose commit failed and was rolled back
RolledBack == {r \in BatchRunIds : bruns[r].pc = "done" /\ ~bruns[r].success}

\* C26: when a storage write of a batch fails, the batch is rolled back:
\* none of its writes is visible afterwards, and the step leaves every
\* committed row as it was; a batch that inserts rows leaves the rows
\* committed before it as they were.
C26_RollbackIsWhole ==
    /\ [](\A r \in RolledBack :
             \A a \in Ids : \A f \in EnrichmentFields : news[a].enr[f] # r)
    /\ [][/\ (\E r \in BatchRunIds : r \in RolledBack' /\ r \notin RolledBack)
             => news' = news
          /\ Len(news') >= Len(news)
          /\ Len(news') > Len(news) => SubSeq(news', 1, Len(news)) = news]_vars

\* A first batch committed its row; the commit of a second batch, which had
\* computed the result of another row, failed: the first row is processed,
\* the other one is not.
C26_Witness ==
    /\ bruns[1].pc = "done" /\ bruns[1].success /\ bruns[1].committed # {}
    /\ 2 \in RolledBack
    /\ \E a \in Ids : news[a].is_processed /\ news[a].enr["summary"] = 1
    /\ \E a \in Ids : ~news[a].is_processed /\ news[a].enr["summary"] = Unwritten

\* C27: an article is never hard-deleted.  Under every operation that writes
\* the News table no row ever leaves it: the table never shrinks and every
\* row keeps its title and url under its id; and the step that deactivates a
\* row clears is_active of that row and changes nothing else.
C27_NeverHardDeleted ==
    [][/\ Len(news') >= Len(news)
       /\ \A a \in Ids :
             /\ news'[a].title = news[a].title
             /\ news'[a].url = news[a].url
             /\ (news[a].is_active /\ ~news'[a].is_active)
                   => news' = [news EXCEPT ![a].is_active = FALSE]]_vars

\* A processed and an unprocessed row have both been deleted by the admin
\* and are both still stored, the processed one with its columns.
C27_Witness ==
    /\ \E a \in Ids : /\ ~news[a].is_active /\ news[a].is_processed
                       /\ \A f \in EnrichmentFields : news[a].enr[f] # Unwritten
    /\ \E a \in Ids : ~news[a].is_active /\ ~news[a].is_processed

\* The enrichment state of the article stored under id a: Processed once
\* its flag is committed, Processing while a call that selected it is in its
\* loop, Unprocessed otherwise.
ArticleState(rows, calls, a) ==
    IF rows[a].is_processed THEN "Processed"
    ELSE IF \E r \in BatchRunIds : calls[r].pc = "loop" /\ a \in calls[r].batch
         THEN "Processing"
         ELSE "Unprocessed"

\* The moves of the state machine, a state being allowed to stay.
ArticleMoves ==
    {<<"Unprocessed", "Unprocessed">>, <<"Unprocessed", "Processing">>,
     <<"Processing", "Processing">>, <<"Processing", "Processed">>,
     <<"Processing", "Unprocessed">>, <<"Processed", "Processed">>}

\* C28: at every step every stored article makes one of the moves
\* Unprocessed -> Processing -> Processed or Processing -> Unprocessed, and it
\* falls back to Unprocessed only in a step that ends a call which selected it
\* and either raised on it or was rolled back; a new row starts Unprocessed;
\* is_processed never goes from true to false.
C28_ProcessedIsAbsorbing ==
    [][/\ \A a \in Ids :
             /\ a \in 1..Len(news')
             /\ <<ArticleState(news, bruns, a), ArticleState(news', bruns', a)>>
                   \in ArticleMoves
             /\ news[a].is_processed => news'[a].is_processed
             /\ (ArticleState(news, bruns, a) = "Processing"
                  /\ ArticleState(news', bruns', a) = "Unprocessed")
                   => \E r \in BatchRunIds :
                         /\ bruns[r].pc = "loop" /\ bruns'[r].pc = "done"
                         /\ a \in bruns[r].batch
                         /\ a \in bruns'[r].failed \/ ~bruns'[r].success
       /\ \A a \in 1..Len(news') :
             a \notin Ids => ArticleState(news', bruns', a) = "Unprocessed"]_vars

\* The first call has committed one article and raised on another, which
\* fell back to Unprocessed and has been selected again by the second call,
\* now in its loop.
C28_Witness ==
    /\ bruns[1].pc = "done" /\ bruns[1].success
    /\ bruns[2].pc = "loop"
    /\ \E a \in Ids : /\ a \in bruns[1].committed
                       /\ ArticleState(news, bruns, a) = "Processed"
    /\ \E a \in Ids : /\ a \in bruns[1].failed
                       /\ ArticleState(news, bruns, a) = "Processing"

\* C29: one call of process_unprocessed_news with batch size B selects at
\* most B articles, every one of them unprocessed in the table at the time
\* of the query, and the counts it returns satisfy
\* processed_count <= total_found <= B.
C29_BatchIsBounded ==
    /\ [](\A r \in BatchRunIds :
            /\ bruns[r].pc = "loop"
                 => /\ Cardinality(bruns[r].pending) <= Cardinality(bruns[r].batch)
                    /\ Cardinality(bruns[r].batch) <= bruns[r].batch_size
            /\ bruns[r].pc = "done"
                 => bruns[r].processed_count <= bruns[r].total_found)
    /\ [][\A r \in BatchRunIds :
            /\ (bruns[r].pc = "idle" /\ bruns'[r].pc = "loop")
                 => \A a \in bruns'[r].batch : a \in Ids /\ ~news[a].is_processed
            /\ (bruns[r].pc = "loop" /\ bruns'[r].pc = "done")
                 => /\ bruns'[r].processed_count <= bruns'[r].total_found
                    /\ bruns'[r].total_found <= bruns[r].batch_size
                    /\ bruns'[r].success
                         => /\ bruns'[r].total_found = Cardinality(bruns[r].batch)
                            /\ bruns'[r].processed_count
                                  = Cardinality(bruns[r].batch \ bruns[r].failed)]_vars

\* A call with batch size 1 found two unprocessed articles, selected one of
\* them and returned total_found 1; the next call selected the other one,
\* raised on it and returned processed_count 0 and total_found 1.
C29_Witness ==
    /\ Len(news) = 2
    /\ bruns[1].pc = "done" /\ bruns[1].success
    /\ bruns[1].total_found = 1 /\ bruns[1].processed_count = 1
    /\ bruns[2].pc = "done" /\ bruns[2].success
    /\ bruns[2].total_found = 1 /\ bruns[2].processed_count = 0
    /\ \E a \in Ids : ~news[a].is_processed /\ a \in bruns[2].failed

\* The articles inside `async with semaphore` of some enrichment stage.
InProgress ==
    UNION {{aiTasks[r].items[k] : k \in Running(aiTasks[r])} : r \in RunIds}

\* C30: at every moment at most Semaphore(2) articles are in progress in the
\* scheduler's enrichment stages, whatever the interleaving, with failing
\* provider calls and with the stages of two ingestion runs alive together.
C30_ConcurrencyBounded == Cardinality(InProgress) <= AiSemaphore

\* Some controversy keyword is in the title or in the body of the article.
KeywordPresent(a) ==
    \E keyword \in controversial_keywords :
        contains(a.title, keyword) \/ contains(a.content, keyword)

\* C31: controversy detection is gated.  For an article with no controversy
\* keyword in title or body no provider is called and the result is not
\* controversial and carries no pros/cons text; a provider is called only
\* when a keyword is present.
C31_ControversyIsGated ==
    en_pc = "returned" =>
       /\ ~KeywordPresent(en_in)
            => /\ ~en_out.gemini_called /\ ~en_out.openai_called
               /\ ~en_out.is_controversial
               /\ en_out.pros_summary = "None" /\ en_out.cons_summary = "None"
               /\ en_out.pros_and_cons = ""
       /\ (en_out.gemini_called \/ en_out.openai_called) => KeywordPresent(en_in)

\* The answer to the controversy prompt says false, or gives the sentinel
\* "none" in place of the opinion of one side.
SaysFalseOrNone(response) ==
    /\ ~response.raised
    /\ \/ response.controversy = "false"
       \/ response.pros = "none"
       \/ response.cons = "none"

\* C32: when the controversy response reports false, or gives "none" for
\* either side, both opinion summaries of the result of process_news are
\* null.
C32_NoneCollapsesBoth ==
    (en_pc \in {"result", "stored"} /\ SaysFalseOrNone(en_in.controversy_response))
       => /\ en_out.result.pros_summary = "None"
          /\ en_out.result.cons_summary = "None"

\* How often a token occurs in the text.
Occurrences(word) ==
    Cardinality({i \in 1..Len(en_in.words) : en_in.words[i] = word})

\* The tokens of the text that are neither short nor stop words.
EligibleTokens ==
    {en_in.words[i] : i \in 1..Len(en_in.words)}
       \cap {word \in TokenPool : Len(word) >= 2 /\ word \notin stopwords}

\* Where a token first occurs in the text.
FirstOccurrence(word) ==
    CHOOSE i \in 1..Len(en_in.words) :
        /\ en_in.words[i] = word
        /\ \A j \in 1..(i - 1) : en_in.words[j] # word

\* C33: extract_keywords returns at most 5 distinct tokens of the text, none
\* shorter than 2 characters, none a stop word, in order of non-increasing
\* frequency; every returned token is at least as frequent as every eligible
\* token left out; and the text determines the result: tokens of equal
\* frequency stand in the order of their first occurrence, and the list is
\* as long as the cap and the eligible tokens allow.
C33_TopFiveKeywords ==
    en_pc = "returned" =>
       LET keywords == en_out.keywords
           returned == {keywords[i] : i \in 1..Len(keywords)}
       IN  /\ Len(keywords) <= 5
           /\ Cardinality(returned) = Len(keywords)
           /\ returned \subseteq EligibleTokens
           /\ \A i, j \in 1..Len(keywords) :
                 i < j => /\ Occurrences(keywords[i]) >= Occurrences(keywords[j])
                          /\ Occurrences(keywords[i]) = Occurrences(keywords[j])
                               => FirstOccurrence(keywords[i]) < FirstOccurrence(keywords[j])
           /\ \A word \in EligibleTokens \ returned :
                 \A i \in 1..Len(keywords) :
                    Occurrences(keywords[i]) >= Occurrences(word)
           /\ Len(keywords) = Min(5, Cardinality(EligibleTokens))

\* Six eligible words and a stop word were in the text; the
\* sixth word, the most frequent, is returned first and a word that came
\* before it is left out.
C33_Witness ==
    /\ en_pc = "returned"
    /\ Cardinality(EligibleTokens) = 6
    /\ \E i \in 1..Len(en_in.words) : en_in.words[i] \in stopwords
    /\ Len(en_out.keywords) = 5
    /\ en_out.keywords[1] = <<"f", "f">>
    /\ Occurrences(<<"f", "f">>) = 2

\* C34: within one crawl the fetches are strictly sequential, at most one is
\* in progress at any time, and whenever a fetch begins after another one
\* the delay has elapsed since that one ended, also when it failed.
C34_SequentialWithDelay ==
    /\ crawl.in_flight <= 1
    /\ crawl.gap.delayed

\* scheme, "//" and a host open the URL
IsAbsolute(u) == Len(u) >= 3 /\ u[1] = "https:" /\ u[2] = "//" /\ u[3] # "/"

\* C35: every candidate an adapter emits carries a non-empty absolute link,
\* the link of the page resolved against the source's base URL, and an item
\* without a link is not emitted.
C35_AbsoluteLink ==
    crawl.pc = "done" =>
       /\ crawl.candidate.emitted
            => /\ crawl.candidate.link.present
               /\ IsAbsolute(crawl.candidate.link.url)
               /\ crawl.candidate.link.url = urljoin(base_url, crawl.item.href.url)
       /\ (~crawl.item.href.present \/ crawl.item.href.url = <<>>)
            => ~crawl.candidate.emitted

\* The minutes of the unit of a relative time text.
UnitMinutes(unit) ==
    IF unit = "sigan" THEN 60 ELSE IF unit = "il" THEN 1440 ELSE 1

\* C36: an item whose time text is "N hours ago", "N minutes ago" or "N days
\* ago", crawled at time T, gets published_at = T minus N hours, minutes or
\* days, within one minute.
C36_RelativeTime ==
    (crawl.pc = "done" /\ crawl.candidate.emitted /\ crawl.item.time.present)
       => \A n \in 1..MaxAgo, unit \in {"sigan", "bun", "il"} :
             crawl.item.time.text = Ago(n, unit)
                => LET expected == CrawlTime - n * UnitMinutes(unit)
                   IN  /\ crawl.candidate.published_at >= expected - 1
                       /\ crawl.candidate.published_at <= expected + 1

\* The time text of the item is missing or is one that no branch of
\* _parse_time parses.
Unparseable(time) ==
    \/ ~time.present
    \/ time.text \in OtherTexts
    \/ \E f \in {"Y/m/d H:M", "Y-m-dTH:M", "Y.m.d H:M"} :
          time.text = <<[t |-> f, n |-> AbsoluteTime]>>

\* C37: an item whose time text is missing or cannot be parsed is emitted
\* all the same, with published_at the crawl time; the item is handled (no
\* exception) and is dropped only for a reason other than its time.
C37_UnparseableIsNow ==
    (crawl.pc = "done" /\ Unparseable(crawl.item.time))
       => /\ crawl.candidate.emitted
             <=> (crawl.adapter = "crawler" \/ ~falsy(crawl.item.href))
          /\ crawl.candidate.emitted => crawl.candidate.published_at = CrawlTime

\* crawl_category has emitted an item whose time text has a number apart
\* from its unit, with the crawl time.
C37_Witness ==
    /\ crawl.pc = "done" /\ crawl.adapter = "crawler"
    /\ crawl.item.time.present
    /\ crawl.item.time.text
          = <<Num(1), Word(" "), Word("sigan"), Word(" "), Word("jeon")>>
    /\ crawl.candidate.emitted
    /\ crawl.candidate.published_at = CrawlTime
    /\ IsAbsolute(crawl.candidate.link.url)

\* C38: the count run_news_crawling reports as saved_count is the number of
\* rows its call added to the News table: 0 when the transaction was rolled
\* back, and never more than crawled_count.
C38_SavedCountIsPersisted ==
    (crawl.pc = "returned" /\ crawl.success)
       => /\ crawl.saved_count = Len(news) - crawl.before
          /\ ~crawl.committed => crawl.saved_count = 0
          /\ crawl.saved_count <= crawl.crawled_count

\* The ids of the jobs of a store
JobIdsOf(store) == {store[k].id : k \in 1..Len(store)}

\* C39: is_running changes only by a start of a stopped scheduler, which
\* registers the jobs, and by a stop of a running one, which adds none; a
\* start while running and a stop while not running change neither
\* is_running nor the jobs; and the store never holds two jobs of one id.
C39_StartStopIdempotent ==
    [][ /\ (is_running' = is_running) => jobs' = jobs
        /\ (~is_running /\ is_running') => JobIds \subseteq JobIdsOf(jobs')
        /\ (is_running /\ ~is_running') => JobIdsOf(jobs') \subseteq JobIdsOf(jobs)
        /\ Cardinality(JobIdsOf(jobs')) = Len(jobs') ]_vars

\* The scheduler was started in the development environment, its ingestion
\* job ran to its end, and it was stopped with its three jobs still in the
\* store, where the next start finds them.
C39_Witness ==
    /\ ~is_running
    /\ Len(jobs) = 3
    /\ runs[1].pc = "done" /\ runs[1].via = "cron"

\* C40: every item a run's enrichment task is started with is an Article of
\* the News table, stored before the task was created: an item whose insert
\* failed has no row and is not among them.
C40_EnrichOnlyStored ==
    \A r \in RunIds :
       aiTasks[r].pc = "run"
          => /\ runs[r].pc = "done"
             /\ \A k \in 1..Len(aiTasks[r].items) :
                   Existing(news, aiTasks[r].items[k])

===========================================================================
